---- MODULE Spec2Model ----
(***************************************************************************)
(* JobMatchAI: the two-tier LLM provider resolver, the LLM client          *)
(* dispatcher, the content-extraction fallback chain and the pipeline of   *)
(* enhanced_job_processor (src/JobApplyAI.py, src/llm_cover_letter.py).    *)
(*                                                                         *)
(* Python values are tagged records: None is [t |-> "none"], a str is      *)
(* [t |-> "str", v |-> <<characters>>], a dict is [t |-> "obj", f |-> a    *)
(* function from keys (character sequences) to values], a list is          *)
(* [t |-> "arr", v |-> <<values>>], an int is [t |-> "num", v |-> digits]. *)
(* An f-string is the sequence of its pieces, each a str.                  *)
(***************************************************************************)
EXTENDS Integers, Sequences, FiniteSets, TLC

VARIABLES
    env,        \* os.environ after load_dotenv: variable name -> str value
    genai,      \* whether `import google.generativeai` succeeds
    argv,       \* sys.argv[1:]
    fs,         \* the paths that exist (os.path.exists)
    args,       \* __main__'s url and resume_path
    pc,         \* position of the run
    proc,       \* the LLMJobProcessor under construction / constructed
    gen,        \* the LLMCoverLetterGenerator constructed
    ret,        \* what the last operation returned or raised
    sent,       \* the last request handed to a backend
    calls,      \* number of outbound LLM requests made so far
    inits,      \* number of provider resolutions (_init_tier_config runs) so far
    log,        \* what each outbound LLM request so far was made for, in order
    browser,    \* "none", "open" or "closed"
    page,       \* the browser page: selector outcomes and body text
    page_title, \* enhanced_job_processor's local page_title
    queried,    \* the selectors queried so far, in order
    job_description, \* enhanced_job_processor's local job_description
    resume_info,     \* enhanced_job_processor's local resume_info
    job_data,        \* the final job-data record
    files       \* what save_cover_letter_to_file has written

cfgVars == <<env, genai, argv, fs, args>>
runVars == <<gen, browser, page, page_title, queried, job_description, resume_info,
             job_data, files>>
llmVars == <<sent, calls, log>>
vars == <<cfgVars, pc, proc, ret, inits, llmVars, runVars>>

----------------------------------------------------------------------------
(* Python values *)

PyNone == [t |-> "none"]
Str(s) == [t |-> "str", v |-> s]
Lit(s) == Str(<<s>>)
Obj(f) == [t |-> "obj", f |-> f]
Arr(a) == [t |-> "arr", v |-> a]
Num(d) == [t |-> "num", v |-> d]
EmptyMap == [k \in {} |-> PyNone]

\* Python truthiness (bool(x)) of a value
Truthy(x) ==
    CASE x.t = "none" -> FALSE
      [] x.t = "str"  -> x.v # <<>>
      [] x.t = "arr"  -> x.v # <<>>
      [] x.t = "num"  -> x.v # <<"0">>
      [] x.t = "obj"  -> DOMAIN x.f # {}
      [] x.t = "text" -> x.len + x.pad > 0
      [] OTHER        -> TRUE

\* str.strip(), str.startswith(), str.replace() on character sequences
Whitespace == {" ", "\n"}

RECURSIVE LStrip(_)
LStrip(s) == IF s # <<>> /\ Head(s) \in Whitespace THEN LStrip(Tail(s)) ELSE s

RECURSIVE RStrip(_)
RStrip(s) ==
    IF s # <<>> /\ s[Len(s)] \in Whitespace
    THEN RStrip(SubSeq(s, 1, Len(s) - 1)) ELSE s

Strip(s) == RStrip(LStrip(s))

StartsWith(s, p) == Len(s) >= Len(p) /\ SubSeq(s, 1, Len(p)) = p

RECURSIVE Replace(_, _, _)
Replace(s, old, new) ==
    IF s = <<>> THEN <<>>
    ELSE IF StartsWith(s, old)
         THEN new \o Replace(SubSeq(s, Len(old) + 1, Len(s)), old, new)
         ELSE <<Head(s)>> \o Replace(Tail(s), old, new)

----------------------------------------------------------------------------
(* json.loads on a character sequence: strings without escapes, integers,  *)
(* null, arrays and objects, with JSON whitespace between tokens.  A word  *)
(* (a key, a name, the literal null) counts as one character; BQ is the    *)
(* backquote character.                                                    *)

Q == "\""
BQ == "bq"
Digits == {"0", "1"}
ParseFail == [ok |-> FALSE, val |-> PyNone, next |-> 0]
Parsed(v, n) == [ok |-> TRUE, val |-> v, next |-> n]

RECURSIVE SkipWs(_, _)
SkipWs(s, i) == IF i <= Len(s) /\ s[i] \in Whitespace THEN SkipWs(s, i + 1) ELSE i

\* index of the closing quote of the string opened before i, 0 if none
RECURSIVE StringEnd(_, _)
StringEnd(s, i) ==
    IF i > Len(s) \/ s[i] = "\n" THEN 0
    ELSE IF s[i] = Q THEN i ELSE StringEnd(s, i + 1)

StringUpTo(s, i, e) ==
    IF e = 0 THEN ParseFail ELSE Parsed(Str(SubSeq(s, i + 1, e - 1)), e + 1)

ParseString(s, i) == StringUpTo(s, i, StringEnd(s, i + 1))

RECURSIVE NumberEnd(_, _)
NumberEnd(s, i) == IF i <= Len(s) /\ s[i] \in Digits THEN NumberEnd(s, i + 1) ELSE i

NumberUpTo(s, i, e) == Parsed(Num(SubSeq(s, i, e - 1)), e)

ParseNumber(s, i) == NumberUpTo(s, i, IF s[i] = "0" THEN i + 1 ELSE NumberEnd(s, i))

RECURSIVE ParseValue(_, _)
RECURSIVE ParseMembers(_, _, _)
RECURSIVE MemberColon(_, _, _)
RECURSIVE MemberValue(_, _, _, _)
RECURSIVE MemberNext(_, _, _)
RECURSIVE ParseElements(_, _, _)
RECURSIVE ElementNext(_, _, _)

\* after "{": the empty object or its members
ObjectFrom(s, j) ==
    IF j <= Len(s) /\ s[j] = "}" THEN Parsed(Obj(EmptyMap), j + 1)
    ELSE ParseMembers(s, j, EmptyMap)

\* after "[": the empty array or its elements
ArrayFrom(s, j) ==
    IF j <= Len(s) /\ s[j] = "]" THEN Parsed(Arr(<<>>), j + 1)
    ELSE ParseElements(s, j, <<>>)

ParseValue(s, i) ==
    IF i > Len(s) THEN ParseFail
    ELSE IF s[i] = Q THEN ParseString(s, i)
    ELSE IF s[i] \in Digits THEN ParseNumber(s, i)
    ELSE IF s[i] = "null" THEN Parsed(PyNone, i + 1)
    ELSE IF s[i] = "{" THEN ObjectFrom(s, SkipWs(s, i + 1))
    ELSE IF s[i] = "[" THEN ArrayFrom(s, SkipWs(s, i + 1))
    ELSE ParseFail

\* "key" : value ( , "key" : value )* }   -- a repeated key keeps the last value
ParseMembers(s, i, acc) ==
    IF i > Len(s) \/ s[i] # Q THEN ParseFail
    ELSE MemberColon(s, ParseString(s, i), acc)

MemberColon(s, k, acc) ==
    IF ~k.ok \/ SkipWs(s, k.next) > Len(s) \/ s[SkipWs(s, k.next)] # ":" THEN ParseFail
    ELSE MemberValue(s, k.val.v, ParseValue(s, SkipWs(s, SkipWs(s, k.next) + 1)), acc)

MemberValue(s, key, v, acc) ==
    IF ~v.ok THEN ParseFail
    ELSE MemberNext(s, SkipWs(s, v.next), (key :> v.val) @@ acc)

MemberNext(s, m, acc) ==
    IF m > Len(s) THEN ParseFail
    ELSE IF s[m] = "}" THEN Parsed(Obj(acc), m + 1)
    ELSE IF s[m] = "," THEN ParseMembers(s, SkipWs(s, m + 1), acc)
    ELSE ParseFail

\* value ( , value )* ]
ElementValue(s, v, acc) ==
    IF ~v.ok THEN ParseFail
    ELSE ElementNext(s, SkipWs(s, v.next), Append(acc, v.val))

ParseElements(s, i, acc) == ElementValue(s, ParseValue(s, i), acc)

ElementNext(s, m, acc) ==
    IF m > Len(s) THEN ParseFail
    ELSE IF s[m] = "]" THEN Parsed(Arr(acc), m + 1)
    ELSE IF s[m] = "," THEN ParseElements(s, SkipWs(s, m + 1), acc)
    ELSE ParseFail

\* json.loads(x): [ok, val]; ok = FALSE with err "JSONDecodeError" for text
\* that is no JSON document, err "TypeError" for an argument that is no str.
LoadsResult(s, v) ==
    IF v.ok /\ SkipWs(s, v.next) > Len(s)
    THEN [ok |-> TRUE, val |-> v.val, err |-> "none"]
    ELSE [ok |-> FALSE, val |-> PyNone, err |-> "JSONDecodeError"]

JsonLoads(x) ==
    IF x.t # "str" THEN [ok |-> FALSE, val |-> PyNone, err |-> "TypeError"]
    ELSE LoadsResult(x.v, ParseValue(x.v, SkipWs(x.v, 1)))

----------------------------------------------------------------------------
(* Environment-sourced configuration *)

\* provider names as they may be written in .env, with str.lower()/str.upper()
RawNames == {"ollama", "Ollama", "gemini", "GEMINI", "openai"}
LowerOf(n) ==
    CASE n \in {"ollama", "Ollama"} -> "ollama"
      [] n \in {"gemini", "GEMINI"} -> "gemini"
      [] OTHER -> "openai"
UpperOf(n) ==
    CASE n = "ollama" -> "OLLAMA"
      [] n = "gemini" -> "GEMINI"
      [] OTHER -> "OPENAI"
Providers == {LowerOf(n) : n \in RawNames}

Tier1Key == <<"TIER1_LLM_PROVIDER">>
Tier2Key == <<"TIER2_LLM_PROVIDER">>
Suffixes == {"_API_KEY", "_BASE_URL", "_HOST", "_MODEL"}
\* f'{provider_upper}_API_KEY' and its siblings
VarName(provider, suffix) == <<UpperOf(provider), suffix>>
DefaultUrlKey == <<"DEFAULT_JOB_URL">>
ResumePathKey == <<"RESUME_PATH">>
EnvKeys == {Tier1Key, Tier2Key, DefaultUrlKey, ResumePathKey}
             \cup {VarName(p, s) : p \in Providers, s \in Suffixes}

\* os.getenv(key): the value, or None for a variable that is not set
getenv(e, key) == e[key]

ApiKeyValue  == Str(<<"sk-1">>)
BaseUrlValue == Str(<<"http://localhost:11434">>)
HostValue    == Str(<<"http://llmhost:11434">>)
ModelValue   == Str(<<"llama3">>)

\* x or y
PyOr(x, y) == IF Truthy(x) THEN x ELSE y

----------------------------------------------------------------------------
(* LLMJobProcessor: provider/tier resolver *)

ValueError(kind, names) == [t |-> "ValueError", kind |-> kind, names |-> names]
NoError == PyNone

\* setattr(self, f'tier{tier}_<name>', value); hasattr; getattr
SetAttr(attrs, tier, name, value) == (<<tier, name>> :> value) @@ attrs
HasAttr(attrs, tier, name) == <<tier, name>> \in DOMAIN attrs
GetAttr(attrs, tier, name) == attrs[<<tier, name>>]
NoAttrs == [k \in {} |-> PyNone]

\* genai.GenerativeModel(model_name): a client with generate_content
GenerativeModel(name) == [t |-> "client", generate_content |-> TRUE, model_name |-> name]

\* 'gemini' in provider.lower()
HasGemini(provider) == provider = "gemini"

\* _init_tier_config without the model check of lines 114-115
InitTierConfig_NoModelCheck(e, g, attrs, tier, provider) ==
    LET api_key  == getenv(e, VarName(provider, "_API_KEY"))
        base_url == PyOr(getenv(e, VarName(provider, "_BASE_URL")),
                         getenv(e, VarName(provider, "_HOST")))
        model    == getenv(e, VarName(provider, "_MODEL"))
        a1 == SetAttr(attrs, tier, "api_key", api_key)
        a2 == SetAttr(a1, tier, "model", PyOr(model, Str(<<provider, "-default-model">>)))
    IN  IF Truthy(api_key)
        THEN \* line 93: the API key was just read as truthy, so the generic
             \* client of line 108 is never built
             IF HasGemini(provider)
             THEN IF g
                  THEN [attrs |-> SetAttr(a2, tier, "client",
                                   GenerativeModel(PyOr(model, Str(<<provider, "-default">>)))),
                        err |-> NoError]
                  ELSE [attrs |-> a2, err |-> ValueError("no_package", {})]
             ELSE [attrs |-> a2, err |-> NoError]
        ELSE IF Truthy(base_url)
        THEN [attrs |-> SetAttr(SetAttr(attrs, tier, "base_url", base_url),
                                tier, "model", model),
              err |-> NoError]
        ELSE [attrs |-> attrs,
              err |-> ValueError("no_config", {VarName(provider, "_API_KEY"),
                                              VarName(provider, "_BASE_URL"),
                                              VarName(provider, "_HOST")})]

\* _init_tier_config(tier, provider) on an object whose tier attributes are
\* attrs: the attributes afterwards and the error raised (NoError if none)
InitTierConfig(e, g, attrs, tier, provider) ==
    LET api_key  == getenv(e, VarName(provider, "_API_KEY"))
        base_url == PyOr(getenv(e, VarName(provider, "_BASE_URL")),
                         getenv(e, VarName(provider, "_HOST")))
        model    == getenv(e, VarName(provider, "_MODEL"))
        a1 == SetAttr(attrs, tier, "api_key", api_key)
        a2 == SetAttr(a1, tier, "model", PyOr(model, Str(<<provider, "-default-model">>)))
    IN  IF Truthy(api_key)
        THEN \* line 93: the API key was just read as truthy, so the generic
             \* client of line 108 is never built
             IF HasGemini(provider)
             THEN IF g
                  THEN [attrs |-> SetAttr(a2, tier, "client",
                                   GenerativeModel(PyOr(model, Str(<<provider, "-default">>)))),
                        err |-> NoError]
                  ELSE [attrs |-> a2, err |-> ValueError("no_package", {})]
             ELSE [attrs |-> a2, err |-> NoError]
        ELSE IF Truthy(base_url)
        THEN IF ~Truthy(model)
             THEN [attrs |-> attrs,
                   err |-> ValueError("no_model", {VarName(provider, "_MODEL")})]
             ELSE [attrs |-> SetAttr(SetAttr(attrs, tier, "base_url", base_url),
                                     tier, "model", model),
                   err |-> NoError]
        ELSE [attrs |-> attrs,
              err |-> ValueError("no_config", {VarName(provider, "_API_KEY"),
                                              VarName(provider, "_BASE_URL"),
                                              VarName(provider, "_HOST")})]

\* str.lower() of a provider name read from the environment
LowerStr(x) == LowerOf(x.v[1])

\* _init_provider_configs: tier 1, then tier 2 only if it names another provider
\* (n counts the runs of _init_tier_config)
AfterTier2(r2) == [attrs |-> r2.attrs, err |-> r2.err, n |-> 2]

AfterTier1(e, g, p1, p2, r1) ==
    IF r1.err # NoError THEN [attrs |-> r1.attrs, err |-> r1.err, n |-> 1]
    ELSE IF p2 # p1 THEN AfterTier2(InitTierConfig(e, g, r1.attrs, 2, p2))
    ELSE [attrs |-> r1.attrs, err |-> NoError, n |-> 1]

InitProviderConfigs(e, g, p1, p2) ==
    AfterTier1(e, g, p1, p2, InitTierConfig(e, g, NoAttrs, 1, p1))

NoObject == [t |-> "none"]

\* LLMJobProcessor(): the object constructed, or the error __init__ raises
Constructed(p1, p2, r) ==
    IF r.err # NoError
    THEN [obj |-> NoObject, err |-> r.err, n |-> r.n]
    ELSE [obj |-> [t |-> "LLMJobProcessor", tier1_provider |-> p1,
                   tier2_provider |-> p2, attrs |-> r.attrs],
          err |-> NoError, n |-> r.n]

NewProcessor(e, g) ==
    IF ~Truthy(getenv(e, Tier1Key))
    THEN [obj |-> NoObject, err |-> ValueError("no_tier1", {Tier1Key}), n |-> 0]
    ELSE IF ~Truthy(getenv(e, Tier2Key))
    THEN [obj |-> NoObject, err |-> ValueError("no_tier2", {Tier2Key}), n |-> 0]
    ELSE Constructed(LowerStr(getenv(e, Tier1Key)), LowerStr(getenv(e, Tier2Key)),
                     InitProviderConfigs(e, g, LowerStr(getenv(e, Tier1Key)),
                                         LowerStr(getenv(e, Tier2Key))))

\* the kind of a tier's descriptor, read as _call_tier_llm reads it
KindOf(attrs, tier) ==
    IF HasAttr(attrs, tier, "api_key") THEN "ApiBased"
    ELSE IF HasAttr(attrs, tier, "base_url") THEN "LocalService"
    ELSE "none"

----------------------------------------------------------------------------
(* LLMJobProcessor: LLM client dispatcher *)

\* what a call returns or raises: (payload, ok), or exc # "none" with no value;
\* req is the request that went out to the backend (NoRequest if none did)
NoRequest == [t |-> "none"]
Return(payload, ok, req) == [payload |-> payload, ok |-> ok, exc |-> "none", req |-> req]
Raise(exc, req) == [payload |-> PyNone, ok |-> FALSE, exc |-> exc, req |-> req]

\* "Return a JSON object" in prompt or "as JSON" in prompt
AsksForJson(prompt) ==
    \E i \in DOMAIN prompt :
        /\ prompt[i].t = "str"
        /\ \E j \in DOMAIN prompt[i].v :
              prompt[i].v[j] \in {"Return a JSON object", "as JSON"}

Fence == <<BQ, BQ, BQ>>
FenceJson == <<BQ, BQ, BQ, "json">>

\* lines 196-200: clean up potential markdown formatting
StripFences(content) ==
    IF StartsWith(content, FenceJson)
    THEN Strip(Replace(Replace(content, FenceJson, <<>>), Fence, <<>>))
    ELSE IF StartsWith(content, Fence)
    THEN Strip(Replace(content, Fence, <<>>))
    ELSE content

\* lines 202-207: parse as JSON, else the raw content; (exc for an error
\* json.loads raises that is no JSONDecodeError)
ParseOrRawOf(j, content, req) ==
    IF j.ok THEN Return(j.val, TRUE, req)
    ELSE IF j.err = "JSONDecodeError"
         THEN Return(Obj(<<"content">> :> content), TRUE, req)
         ELSE Raise(j.err, req)

ParseOrRaw(content, req) == ParseOrRawOf(JsonLoads(content), content, req)

\* _call_api_service; b is how the backend behaves on this call
CallApiService(attrs, tier, provider, prompt, system_prompt, b) ==
    IF HasAttr(attrs, tier, "client")
    THEN LET client == GetAttr(attrs, tier, "client")
         IN  IF client.generate_content
             THEN LET p1 == IF Truthy(system_prompt)
                            THEN <<system_prompt, Lit("\n\n")>> \o prompt ELSE prompt
                      full_prompt == IF AsksForJson(prompt)
                                     THEN p1 \o <<Lit("\n\nIMPORTANT: Return only valid JSON, no additional text or markdown formatting.")>>
                                     ELSE p1
                      req == [t |-> "generate_content", client |-> client,
                              prompt |-> full_prompt]
                  IN  IF b.exc # "none" THEN Raise(b.exc, req)
                      ELSE IF Truthy(b.text)
                           THEN ParseOrRaw(Str(StripFences(Strip(b.text.v))), req)
                           ELSE Return(PyNone, FALSE, req)
             ELSE Return(PyNone, FALSE, NoRequest)
    ELSE Raise("ValueError", NoRequest)

\* dict.get(key, default) on a value: AttributeError on anything but a dict
DictGet(x, key, default) ==
    IF x.t # "obj" THEN [ok |-> FALSE, val |-> PyNone]
    ELSE [ok |-> TRUE, val |-> IF key \in DOMAIN x.f THEN x.f[key] ELSE default]

\* response.json() of the local chat endpoint for the backend behaviour b
InvalidBody == [t |-> "invalid"]
ChatBody(b) ==
    CASE b.shape = "content"    -> Obj(<<"message">> :> Obj(<<"content">> :> b.text))
      [] b.shape = "no_content" -> Obj(<<"message">> :> Obj(EmptyMap))
      [] b.shape = "no_message" -> Obj(EmptyMap)
      [] b.shape = "array"      -> Arr(<<b.text>>)
      [] OTHER                  -> InvalidBody

StatusOK == 200
ChatTimeout == 60

\* except Exception: return None, False
Caught(r) == IF r.exc # "none" THEN Return(PyNone, FALSE, r.req) ELSE r

\* _call_local_service without the status test of line 248: the body of any
\* response is taken as an answer
CallLocalService_AnyStatus(attrs, tier, provider, prompt, system_prompt, b) ==
    IF b.exc = "import" THEN Raise("ValueError", NoRequest)
    ELSE LET base_url == GetAttr(attrs, tier, "base_url")
             model    == GetAttr(attrs, tier, "model")
             messages == (IF Truthy(system_prompt)
                          THEN <<[role |-> "system", content |-> <<system_prompt>>]>>
                          ELSE <<>>)
                         \o <<[role |-> "user", content |-> prompt]>>
             req == [t |-> "POST", url |-> <<base_url, "/api/chat">>,
                     json |-> [model |-> model, messages |-> messages,
                               stream |-> FALSE, format |-> "json"],
                     timeout |-> ChatTimeout]
         IN  IF b.exc # "none" THEN Return(PyNone, FALSE, req)
             ELSE LET result == ChatBody(b)
                      message == DictGet(result, <<"message">>, Obj(EmptyMap))
                      content == IF message.ok
                                 THEN DictGet(message.val, <<"content">>, Str(<<>>))
                                 ELSE message
                  IN  IF result = InvalidBody \/ ~content.ok
                      THEN Return(PyNone, FALSE, req)
                      ELSE Caught(ParseOrRaw(content.val, req))

\* _call_local_service
CallLocalService(attrs, tier, provider, prompt, system_prompt, b) ==
    IF b.exc = "import" THEN Raise("ValueError", NoRequest)
    ELSE LET base_url == GetAttr(attrs, tier, "base_url")
             model    == GetAttr(attrs, tier, "model")
             messages == (IF Truthy(system_prompt)
                          THEN <<[role |-> "system", content |-> <<system_prompt>>]>>
                          ELSE <<>>)
                         \o <<[role |-> "user", content |-> prompt]>>
             req == [t |-> "POST", url |-> <<base_url, "/api/chat">>,
                     json |-> [model |-> model, messages |-> messages,
                               stream |-> FALSE, format |-> "json"],
                     timeout |-> ChatTimeout]
         IN  IF b.exc # "none" THEN Return(PyNone, FALSE, req)
             ELSE IF b.status = StatusOK
             THEN LET result == ChatBody(b)
                      message == DictGet(result, <<"message">>, Obj(EmptyMap))
                      content == IF message.ok
                                 THEN DictGet(message.val, <<"content">>, Str(<<>>))
                                 ELSE message
                  IN  IF result = InvalidBody \/ ~content.ok
                      THEN Return(PyNone, FALSE, req)
                      ELSE Caught(ParseOrRaw(content.val, req))
             ELSE Return(PyNone, FALSE, req)

\* the body of _call_tier_llm's try block
CallTierLlmBody(attrs, tier, provider, prompt, system_prompt, b) ==
    IF ~HasAttr(attrs, tier, "model") THEN Raise("AttributeError", NoRequest)
    ELSE IF HasAttr(attrs, tier, "api_key")
         THEN CallApiService(attrs, tier, provider, prompt, system_prompt, b)
    ELSE IF HasAttr(attrs, tier, "base_url")
         THEN CallLocalService(attrs, tier, provider, prompt, system_prompt, b)
    ELSE Raise("ValueError", NoRequest)

\* _call_tier_llm: except Exception -> (None, False)
CallTierLlm_NoCatch(attrs, tier, provider, prompt, system_prompt, b) ==
    CallTierLlmBody(attrs, tier, provider, prompt, system_prompt, b)

CallTierLlm(attrs, tier, provider, prompt, system_prompt, b) ==
    Caught(CallTierLlmBody(attrs, tier, provider, prompt, system_prompt, b))

\* _call_llm(prompt, system_prompt, tier) on the processor p
CallLlm(p, prompt, system_prompt, tier, b) ==
    LET provider == IF tier = 1 THEN p.tier1_provider ELSE p.tier2_provider
    IN  CallTierLlm(p.attrs, tier, provider, prompt, system_prompt, b)

----------------------------------------------------------------------------
(* Backends: what an LLM service may answer *)

\* JSON documents an LLM may produce
DocJob      == <<"{", Q, "job_title", Q, ":", " ", Q, "Engineer", Q, ",", " ",
                 Q, "company", Q, ":", Q, "Acme", Q, "}">>
DocJobDesc  == <<"{", Q, "job_title", Q, ":", Q, "Engineer", Q, ",",
                 Q, "description", Q, ":", Q, "from", " ", "LLM", Q, "}">>
DocResume   == <<"{", Q, "name", Q, ":", Q, "Jane Doe", Q, ",", "\n",
                 Q, "years_experience", Q, ":", "1", "0", "}">>
DocContent  == <<"{", Q, "content", Q, ":", Q, "distilled", Q, "}">>
DocFenceIn  == <<"{", Q, "name", Q, ":", Q, BQ, BQ, BQ, Q, "}">>
DocJsonIn   == <<"{", Q, "name", Q, ":", Q, "use", " ", BQ, BQ, BQ, "json", Q, "}">>
DocEmptyObj == <<"{", "}">>
DocArray    == <<"[", Q, "Engineer", Q, ",", "null", "]">>
DocString   == <<Q, "Engineer", Q>>
DocZero     == <<"0">>
DocNull     == <<"null">>
JsonDocs == {DocJob, DocJobDesc, DocResume, DocContent, DocFenceIn, DocJsonIn,
             DocEmptyObj, DocArray, DocString, DocZero, DocNull}

\* the same document inside a Markdown code fence
WrapJson(doc)  == FenceJson \o <<"\n">> \o doc \o <<"\n">> \o Fence
WrapPlain(doc) == Fence \o <<"\n">> \o doc \o <<"\n">> \o Fence \o <<"\n">>

\* text that is no JSON document
NotJson == {<<>>, <<" ", "\n">>, <<"Here", " ", "is", " ", "the", " ", "job">>,
            <<" ", "Engineer", " ", "wanted", "\n">>,
            <<"{", Q, "name", Q, ":">>, WrapJson(<<"Sure", "!">>)}

Texts == JsonDocs \cup {WrapJson(d) : d \in JsonDocs} \cup {WrapPlain(d) : d \in JsonDocs}
           \cup {<<" ">> \o d \o <<"\n">> : d \in {DocJob, DocNull}} \cup NotJson

\* a backend's behaviour on one call: the exception the transport raises (or
\* "none"), the HTTP status, the shape of the chat body and the text returned
Answer(text) == [exc |-> "none", status |-> StatusOK, shape |-> "content", text |-> text]
Failure(exc) == [exc |-> exc, status |-> 0, shape |-> "content", text |-> PyNone]
Backends ==
    {Answer(Str(t)) : t \in Texts}
      \cup {Answer(PyNone), Answer(Num(<<"1">>))}
      \cup {[Answer(Str(DocJob)) EXCEPT !.shape = sh] :
                sh \in {"no_content", "no_message", "array", "invalid"}}
      \cup {[Answer(Str(DocJob)) EXCEPT !.status = st] : st \in {201, 404, 500}}
      \cup {Failure(x) : x \in {"ConnectionError", "Timeout", "import"}}

TransportOK(b) == b.exc = "none" /\ b.status = StatusOK /\ b.shape = "content"

----------------------------------------------------------------------------
(* Configurations *)

Unset == PyNone
NoEnv == [k \in EnvKeys |-> Unset]

\* the settings of one provider: present or absent key, base URL, host, model
ProviderSettings(p, k, u, h, m) ==
    (VarName(p, "_API_KEY") :> k) @@ (VarName(p, "_BASE_URL") :> u)
      @@ (VarName(p, "_HOST") :> h) @@ (VarName(p, "_MODEL") :> m)

AllSettings(p) ==
    {ProviderSettings(p, k, u, h, m) :
        k \in {Unset, Str(<<>>), ApiKeyValue}, u \in {Unset, BaseUrlValue},
        h \in {Unset, HostValue}, m \in {Unset, ModelValue}}

\* the usual ways a provider is set up in .env: hosted (key and model) or
\* local (base URL and model)
UsualSettings(p) ==
    {ProviderSettings(p, ApiKeyValue, Unset, Unset, ModelValue),
     ProviderSettings(p, Unset, BaseUrlValue, Unset, ModelValue)}

Prompts == {<<Lit("Extract the job description"), Lit("body")>>,
            <<Lit("Please analyze"), Lit("text"), Lit("Return a JSON object"),
              Lit("fields")>>}
SystemPrompts == {PyNone, Str(<<"You are an expert">>)}

----------------------------------------------------------------------------
(* The dispatcher specification: a processor is constructed from the       *)
(* environment and then serves one call on either tier (every processor    *)
(* the program constructs serves at most one call).                        *)

NoReturn == [t |-> "none"]
NoBackend == [t |-> "none"]
NoPage == [t |-> "none"]

DefaultTitle == Str(<<"Job Application">>)

\* the command line `JobApplyAI.py <url> <resume>` with an existing resume
JobUrl == Lit("https://jobs.example.com/42")
ResumePath == Lit("cv.txt")
NoArgs == [t |-> "none"]
Launched ==
    /\ argv = <<JobUrl, ResumePath>> /\ fs = {ResumePath}
    /\ args = [url |-> JobUrl, resume_path |-> ResumePath]

Idle ==
    /\ gen = NoObject /\ browser = "none" /\ page = NoPage /\ queried = <<>>
    /\ page_title = DefaultTitle
    /\ job_description = PyNone /\ resume_info = PyNone /\ job_data = PyNone
    /\ files = <<>>

Init ==
    /\ pc = "start"
    /\ genai \in BOOLEAN
    /\ \E n1 \in {"Ollama", "gemini", "openai"}, n2 \in Providers :
         \E s1 \in UsualSettings(LowerOf(n1)), s2 \in UsualSettings(n2) :
            env = (Tier1Key :> Str(<<n1>>)) @@ (Tier2Key :> Str(<<n2>>))
                    @@ s1 @@ s2 @@ NoEnv
    /\ proc = NoObject /\ ret = NoReturn /\ sent = NoRequest
    /\ calls = 0 /\ inits = 0 /\ log = <<>>
    /\ Launched /\ Idle

\* processor = LLMJobProcessor()
ConstructAs(r) ==
    /\ proc' = r.obj
    /\ ret' = [t |-> "init", err |-> r.err]
    /\ inits' = inits + r.n
    /\ pc' = IF r.err = NoError THEN "ready" ELSE "failed"

Construct ==
    /\ pc = "start"
    /\ ConstructAs(NewProcessor(env, genai))
    /\ UNCHANGED <<cfgVars, llmVars, runVars>>

\* a transport that sends every request a second time
Requested_Retried(purpose, r) ==
    /\ sent' = r.req
    /\ calls' = IF r.req = NoRequest THEN calls ELSE calls + 2
    /\ log' = IF r.req = NoRequest THEN log ELSE log \o <<purpose, purpose>>

\* processor._call_llm(prompt, system_prompt, tier)
Requested(purpose, r) ==
    /\ sent' = r.req
    /\ calls' = IF r.req = NoRequest THEN calls ELSE calls + 1
    /\ log' = IF r.req = NoRequest THEN log ELSE Append(log, purpose)

CallAs(tier, prompt, system_prompt, b, r) ==
    /\ ret' = [t |-> "call", tier |-> tier, prompt |-> prompt,
               system_prompt |-> system_prompt, backend |-> b,
               payload |-> r.payload, ok |-> r.ok, exc |-> r.exc]
    /\ Requested("call", r)

Call(tier, prompt, system_prompt, b) ==
    /\ pc = "ready"
    /\ CallAs(tier, prompt, system_prompt, b, CallLlm(proc, prompt, system_prompt, tier, b))
    /\ pc' = "returned"
    /\ UNCHANGED <<cfgVars, proc, inits, runVars>>

Next ==
    \/ Construct
    \/ \E tier \in {1, 2}, prompt \in Prompts, system_prompt \in SystemPrompts,
          b \in Backends : Call(tier, prompt, system_prompt, b)

Spec == Init /\ [][Next]_vars

----------------------------------------------------------------------------
(* The resolver specification: _init_tier_config applied to one provider   *)
(* under every combination of its settings, and the construction of a      *)
(* processor from such an environment.                                     *)

InitResolver ==
    /\ pc = "start"
    /\ genai \in BOOLEAN
    /\ \E n1 \in RawNames, t2 \in {Unset, Str(<<"ollama">>), Str(<<"GEMINI">>)} :
         \E s1 \in AllSettings(LowerOf(n1)) :
            env = (Tier1Key :> Str(<<n1>>)) @@ (Tier2Key :> t2) @@ s1 @@ NoEnv
    /\ proc = NoObject /\ ret = NoReturn /\ sent = NoRequest
    /\ calls = 0 /\ inits = 0 /\ log = <<>>
    /\ Launched /\ Idle

\* self._init_tier_config(tier, provider) on a fresh object
ResolveTierAs(tier, provider, r) ==
    /\ proc' = [t |-> "LLMJobProcessor", tier1_provider |-> provider,
                tier2_provider |-> provider, attrs |-> r.attrs]
    /\ ret' = [t |-> "init_tier", tier |-> tier, provider |-> provider, err |-> r.err]
    /\ inits' = inits + 1
    /\ pc' = IF r.err = NoError THEN "resolved" ELSE "failed"

ResolveTier(tier) ==
    /\ pc = "start"
    /\ ResolveTierAs(tier, LowerStr(getenv(env, Tier1Key)),
                     InitTierConfig(env, genai, NoAttrs, tier,
                                    LowerStr(getenv(env, Tier1Key))))
    /\ UNCHANGED <<cfgVars, llmVars, runVars>>

NextResolver ==
    \/ \E tier \in {1, 2} : ResolveTier(tier)
    \/ Construct

SpecResolver == InitResolver /\ [][NextResolver]_vars

\* the settings of the provider just resolved
Resolved == ret.t = "init_tier"
KeyPresent   == Truthy(getenv(env, VarName(ret.provider, "_API_KEY")))
UrlPresent   == \/ Truthy(getenv(env, VarName(ret.provider, "_BASE_URL")))
                \/ Truthy(getenv(env, VarName(ret.provider, "_HOST")))
ModelPresent == Truthy(getenv(env, VarName(ret.provider, "_MODEL")))
ConfigErrorNamesBoth ==
    /\ ret.err # NoError /\ ret.err.kind = "no_config"
    /\ {VarName(ret.provider, "_API_KEY"), VarName(ret.provider, "_BASE_URL"),
        VarName(ret.provider, "_HOST")} \subseteq ret.err.names

\* C1 (as stated): for every provider and every combination of present/absent
\* API key, base URL, host and model, _init_tier_config classifies the tier as
\* ApiBased when an API key is present, otherwise as LocalService when a base
\* URL or host is present, and otherwise raises a configuration error naming the
\* API-key and the base-URL/host variables.
C1_AsStated ==
    Resolved =>
        /\ KeyPresent => KindOf(proc.attrs, ret.tier) = "ApiBased"
        /\ (~KeyPresent /\ UrlPresent) =>
              (ret.err = NoError /\ KindOf(proc.attrs, ret.tier) = "LocalService")
        /\ (~KeyPresent /\ ~UrlPresent) => ConfigErrorNamesBoth

\* C1 (amended): with an API key present the tier is ApiBased (the only error
\* then is the missing client package of the hosted provider); otherwise with a
\* base URL or host present it is LocalService when a model is configured and a
\* configuration error naming the model variable when none is; otherwise a
\* configuration error naming the API-key and the base-URL/host variables.
C1_TierClassification ==
    Resolved =>
        /\ KeyPresent =>
              /\ KindOf(proc.attrs, ret.tier) = "ApiBased"
              /\ \/ ret.err = NoError
                 \/ (ret.err.kind = "no_package" /\ HasGemini(ret.provider) /\ ~genai)
        /\ (~KeyPresent /\ UrlPresent /\ ModelPresent) =>
              (ret.err = NoError /\ KindOf(proc.attrs, ret.tier) = "LocalService")
        /\ (~KeyPresent /\ UrlPresent /\ ~ModelPresent) =>
              /\ ret.err # NoError /\ ret.err.kind = "no_model"
              /\ ret.err.names = {VarName(ret.provider, "_MODEL")}
              /\ KindOf(proc.attrs, ret.tier) = "none"
        /\ (~KeyPresent /\ ~UrlPresent) =>
              (ConfigErrorNamesBoth /\ KindOf(proc.attrs, ret.tier) = "none")

\* C1 witness: a tier resolved as ApiBased although a base URL is present too
C1_Witness ==
    /\ Resolved /\ KeyPresent /\ UrlPresent
    /\ ret.err = NoError /\ KindOf(proc.attrs, ret.tier) = "ApiBased"

----------------------------------------------------------------------------
(* Claims about the dispatcher (specification Spec) *)

Returned == ret.t = "call"
SameProvider == proc.tier1_provider = proc.tier2_provider

\* the ProviderDescriptor of a tier, read from the tier's attributes
AttrOrNone(attrs, tier, name) ==
    IF HasAttr(attrs, tier, name) THEN GetAttr(attrs, tier, name) ELSE PyNone
Descriptor(attrs, tier) ==
    [kind     |-> KindOf(attrs, tier),
     model    |-> AttrOrNone(attrs, tier, "model"),
     api_key  |-> AttrOrNone(attrs, tier, "api_key"),
     base_url |-> AttrOrNone(attrs, tier, "base_url")]

\* the same call made on tier 1
OnTier1 == CallLlm(proc, ret.prompt, ret.system_prompt, 1, ret.backend)

\* C2: when both tiers name the same provider, tier 2 has the same resolved
\* descriptor as tier 1, and a tier-2 call is served by the same endpoint and
\* model as a tier-1 call and succeeds whenever the tier-1 call with the same
\* backend response would succeed.
C2_SameProviderSameService ==
    (Returned /\ SameProvider /\ ret.tier = 2) =>
        /\ Descriptor(proc.attrs, 2) = Descriptor(proc.attrs, 1)
        /\ sent = OnTier1.req
        /\ OnTier1.ok => ret.ok

\* C3: _call_llm never raises to its caller: whatever the tier, the
\* configuration and the backend do, it returns a pair, and every failure
\* (transport exception, missing attribute or client, parse error) is the pair
\* (None, False).
C3_NeverRaises ==
    Returned =>
        /\ ret.exc = "none"
        /\ ret.backend.exc # "none" => (~ret.ok /\ ret.payload = PyNone)
        /\ ~ret.ok => ret.payload = PyNone

\* C3 witness: the hosted client raised a timeout and the caller got (None, False)
C3_Witness ==
    /\ Returned /\ ret.backend.exc = "Timeout" /\ sent # NoRequest
    /\ sent.t = "generate_content"
    /\ ret.exc = "none" /\ ~ret.ok /\ ret.payload = PyNone

\* the response text as the JSON parser sees it: as received on the local path,
\* after the whitespace and code-fence clean-up on the hosted path
Cleaned ==
    IF sent.t = "generate_content" /\ ret.backend.text.t = "str"
    THEN Str(StripFences(Strip(ret.backend.text.v)))
    ELSE ret.backend.text

\* C4: whenever the transport call succeeded and the response text is not valid
\* JSON (empty or null content included), the dispatcher returns
\* ({"content": text}, True), never (None, False), on the hosted and on the
\* local path.
C4_MalformedJsonIsRawText ==
    (Returned /\ sent # NoRequest /\ TransportOK(ret.backend) /\ ~JsonLoads(Cleaned).ok) =>
        (ret.ok /\ ret.payload = Obj(<<"content">> :> Cleaned))

\* the same call answered with the document d alone
Unwrapped(d) ==
    CallLlm(proc, ret.prompt, ret.system_prompt, ret.tier, Answer(Str(d)))

\* C5: for every well-formed JSON document (also one whose string values hold
\* backquote fences), the payload the hosted path returns for the document
\* wrapped in a Markdown code fence equals the payload for the document alone.
C5_FenceStrippingLossless ==
    (Returned /\ sent.t = "generate_content") =>
        \A d \in JsonDocs :
            ret.backend \in {Answer(Str(WrapJson(d))), Answer(Str(WrapPlain(d)))} =>
                (ret.ok = Unwrapped(d).ok /\ ret.payload = Unwrapped(d).payload)

----------------------------------------------------------------------------
(* Page text: a str known by its origin and its length                     *)

\* the str read from `src` (a selector's index, "body" or "resume"): `len`
\* characters with `pad` whitespace characters around them; `cut` characters
\* have been sliced off its end
Text(src, len, pad) == [t |-> "text", src |-> src, len |-> len, pad |-> pad, cut |-> 0]

Min(a, b) == IF a <= b THEN a ELSE b

\* text.strip()
TextStrip(x) == [x EXCEPT !.pad = 0]

\* text[:n]
TextPrefix(x, n) ==
    IF x.pad + x.len <= n THEN x
    ELSE [x EXCEPT !.pad = Min(x.pad, n), !.len = n - Min(x.pad, n),
                   !.cut = x.cut + x.pad + x.len - n]

\* len(x) and x[:n] on a value; len() of None or an int is a TypeError
Sized(x) == x.t \in {"text", "str", "arr", "obj"}
PyLen(x) ==
    CASE x.t = "text" -> x.pad + x.len
      [] x.t = "obj"  -> Cardinality(DOMAIN x.f)
      [] OTHER        -> Len(x.v)
PyPrefix(x, n) ==
    CASE x.t = "text" -> TextPrefix(x, n)
      [] x.t = "str"  -> Str(SubSeq(x.v, 1, Min(Len(x.v), n)))
      [] OTHER        -> Arr(SubSeq(x.v, 1, Min(Len(x.v), n)))

----------------------------------------------------------------------------
(* LLMJobProcessor: the extractors *)

\* what an extractor returns (val) or raises (exc # "none"); r is what the
\* dispatcher call it made returned
Extracted(val, r) == [val |-> val, exc |-> "none", payload |-> r.payload,
                      ok |-> r.ok, req |-> r.req]
ExtractFails(exc, r) == [val |-> PyNone, exc |-> exc, payload |-> r.payload,
                         ok |-> r.ok, req |-> r.req]
NotCalled == Return(PyNone, FALSE, NoRequest)

ResumeSystemPrompt == Lit("You are an expert resume parser")
ResumeUserPrompt(resume_text) ==
    <<Lit("Please analyze this resume text"), resume_text, Lit("Return a JSON object"),
      Lit("with these fields")>>

\* the fields _llm_extract_resume_info reads from the LLM's answer, with the
\* defaults it falls back to
ResumeDefaults ==
    (<<"name">> :> Lit("Candidate")) @@ (<<"email">> :> Lit("candidate@email.com"))
      @@ (<<"phone">> :> Lit("Not specified")) @@ (<<"location">> :> Lit("Not specified"))
      @@ (<<"title">> :> Lit("Professional")) @@ (<<"experience_summary">> :> Str(<<>>))
      @@ (<<"years_experience">> :> Num(<<"0">>)) @@ (<<"key_skills">> :> Arr(<<>>))
      @@ (<<"education">> :> Lit("Not specified")) @@ (<<"certifications">> :> Arr(<<>>))

\* lines 587-599
BuildResumeInfo(result, resume_text) ==
    Obj((<<"full_content">> :> resume_text)
          @@ [k \in DOMAIN ResumeDefaults |-> DictGet(result, k, ResumeDefaults[k]).val])

\* lines 585-603 with defaults in place of the raise of line 603
ResumeInfoOf_DefaultsOnFailure(r, resume_text) ==
    IF r.payload.t = "obj"
    THEN Extracted(BuildResumeInfo(r.payload, resume_text), r)
    ELSE Extracted(BuildResumeInfo(Obj(EmptyMap), resume_text), r)

\* lines 585-603, on what the dispatcher returned
ResumeInfoOf(r, resume_text) ==
    IF r.ok /\ Truthy(r.payload)
    THEN IF r.payload.t = "obj"
         THEN Extracted(BuildResumeInfo(r.payload, resume_text), r)
         ELSE ExtractFails("AttributeError", r)
    ELSE ExtractFails("Exception", r)

\* _llm_extract_resume_info(resume_text) on the processor p
LlmExtractResumeInfo(p, resume_text, b) ==
    ResumeInfoOf(CallLlm(p, ResumeUserPrompt(resume_text), ResumeSystemPrompt, 2, b),
                 resume_text)

JobSystemPrompt == Lit("You are an expert at extracting job information")
ContentPreviewChars == 2000

\* lines 614-618
ContentSection(page_content) ==
    IF ~Truthy(page_content) THEN <<>>
    ELSE IF PyLen(page_content) > ContentPreviewChars
         THEN <<Lit("\nPAGE CONTENT:\n"), PyPrefix(page_content, ContentPreviewChars),
                Lit("...")>>
         ELSE <<Lit("\nPAGE CONTENT:\n"), page_content>>

JobUserPrompt(url, title, page_content) ==
    <<Lit("Please analyze this job posting information"), Lit("URL: "), url,
      Lit("PAGE TITLE: "), title>> \o ContentSection(page_content)
      \o <<Lit("Return a JSON object"), Lit("with these fields")>>

\* lines 643-647, on what the dispatcher returned
JobInfoOf(r) ==
    IF r.ok /\ Truthy(r.payload)
    THEN IF r.payload.t = "obj" THEN Extracted(r.payload, r)
         ELSE ExtractFails("AttributeError", r)
    ELSE ExtractFails("Exception", r)

\* _llm_extract_job_info(url, title, page_content) on the processor p
LlmExtractJobInfo(p, url, title, page_content, b) ==
    IF Truthy(page_content) /\ ~Sized(page_content)
    THEN ExtractFails("TypeError", NotCalled)
    ELSE JobInfoOf(CallLlm(p, JobUserPrompt(url, title, page_content),
                           JobSystemPrompt, 2, b))

----------------------------------------------------------------------------
(* The job page and the content extractor *)

NumSelectors == 19
SelectorMinChars == 150
BodyMinChars == 300
BodyPrefixChars == 3000

\* how far text lengths range above a threshold
MaxExcess == 1

\* what query_selector / inner_text give for one selector: no element, an
\* exception, or the element's text
NoElement == PyNone
QueryRaises == [t |-> "raises"]

\* the text of the element selector i matches, by length and padding
ElementLens == {0} \cup (SelectorMinChars .. SelectorMinChars + MaxExcess)
ElementOutcomes(i) ==
    {NoElement, QueryRaises} \cup {Text(i, n, 0) : n \in ElementLens}
      \cup {Text(i, n, 1) : n \in {SelectorMinChars, SelectorMinChars + MaxExcess}}
LastOutcomes == {NoElement, Text(NumSelectors, SelectorMinChars + MaxExcess, 1)}

\* document.body.innerText: an exception or the text
BodyLens == {0} \cup (BodyMinChars .. BodyMinChars + MaxExcess)
                \cup {BodyPrefixChars + MaxExcess}
BodyOutcomes ==
    {QueryRaises} \cup {Text("body", n, 0) : n \in BodyLens}
      \cup {Text("body", n, 1) : n \in {BodyMinChars, BodyMinChars + MaxExcess}}

\* the pages explored: the 1st and the 5th selector may match anything, the
\* last one a substantial text, the other selectors match nothing
ElementsOf(first, fifth, last) ==
    [i \in 1..NumSelectors |->
        IF i = 1 THEN first ELSE IF i = 5 THEN fifth
        ELSE IF i = NumSelectors THEN last ELSE NoElement]

LoadFailure == [t |-> "unloaded"]
NoElements == <<>>
Pages ==
    {[t |-> "page", title |-> Lit("Engineer at Acme"),
      elements |-> ElementsOf(first, fifth, last), body |-> body] :
        first \in ElementOutcomes(1), fifth \in ElementOutcomes(5),
        last \in LastOutcomes, body \in BodyOutcomes}

\* line 958: substantial content
Accepts_Unstripped(o) ==
    o.t = "text" /\ Truthy(o) /\ PyLen(o) > SelectorMinChars

Accepts(o) ==
    o.t = "text" /\ Truthy(o) /\ PyLen(TextStrip(o)) > SelectorMinChars

\* lines 953-963, from selector i on; q is the selectors queried before it
RECURSIVE WalkSelectors(_, _, _)
WalkSelectors(elements, i, q) ==
    IF i > NumSelectors THEN [job_description |-> PyNone, queried |-> q]
    ELSE IF Accepts(elements[i])
         THEN [job_description |-> TextStrip(elements[i]), queried |-> Append(q, i)]
         ELSE WalkSelectors(elements, i + 1, Append(q, i))

\* line 969
BodyQualifies_AnyText(body) ==
    body.t = "text" /\ Truthy(body)

BodyQualifies(body) ==
    body.t = "text" /\ Truthy(body) /\ PyLen(TextStrip(body)) > BodyMinChars

DistillSystemPrompt == Lit("Extract job description content from webpage text")
DistillUserPrompt(body_text) ==
    <<Lit("Extract the job description and requirements from this webpage text:\n\n"),
      TextPrefix(body_text, BodyPrefixChars)>>

\* lines 977-981 on what the dispatcher returned: the new job_description and
\* the exception line 982 catches
Distilled(r, content) ==
    IF ~r.ok THEN [job_description |-> PyNone, caught |-> "none"]
    ELSE IF ~content.ok THEN [job_description |-> PyNone, caught |-> "AttributeError"]
    ELSE IF Truthy(content.val) THEN [job_description |-> content.val, caught |-> "none"]
    ELSE [job_description |-> PyNone, caught |-> "none"]

DistilledOf(r) == Distilled(r, DictGet(r.payload, <<"content">>, PyNone))

\* lines 966-983 for a body text that qualifies; c is the processor line 971
\* constructs
DistillWith(c, body_text, b) ==
    IF c.err # NoError THEN Return(PyNone, FALSE, NoRequest)
    ELSE CallLlm(c.obj, DistillUserPrompt(body_text), DistillSystemPrompt, 2, b)

----------------------------------------------------------------------------
(* The pipeline specification: one run of enhanced_job_processor(url,      *)
(* resume_path), step by step.                                             *)

ResumeText ==
    Str(<<"Jane", " ", "Doe", "\n", "jane@example.com", "\n",
          "Engineer", " ", "with", " ", "experience">>)

\* what the LLM services answer in a run
PipelineBackends ==
    {Answer(Str(t)) : t \in {DocResume, DocJob, DocJobDesc, DocContent, DocEmptyObj,
                             DocArray, DocString, WrapJson(DocJob),
                             <<"Here", " ", "is", " ", "the", " ", "job">>}}
      \cup {Answer(PyNone), Failure("Timeout"), [Answer(Str(DocJob)) EXCEPT !.status = 500]}

\* a hosted provider (key and model) or a local one (base URL and model)
Hosted(p) == ProviderSettings(p, ApiKeyValue, Unset, Unset, ModelValue)
Local(p) == ProviderSettings(p, Unset, BaseUrlValue, Unset, ModelValue)

InitPipeline ==
    /\ pc = "start"
    /\ genai \in BOOLEAN
    /\ \E n1 \in {"gemini", "ollama"}, n2 \in {"gemini", "ollama"} :
          env = (Tier1Key :> Lit(n1)) @@ (Tier2Key :> Lit(n2))
                  @@ Hosted("gemini") @@ Local("ollama") @@ NoEnv
    /\ proc = NoObject /\ ret = NoReturn /\ sent = NoRequest
    /\ calls = 0 /\ inits = 0 /\ log = <<>>
    /\ Launched /\ Idle

\* what a step did: the exception it raised, and what the dispatcher call it
\* made returned
StepRet(step, x, b) ==
    [t |-> step, exc |-> x.exc, payload |-> x.payload, ok |-> x.ok, backend |-> b]

\* ', '.join(value[:5]) raises unless value is a str or a list of str
JoinFails(value) ==
    /\ Truthy(value)
    /\ ~ \/ value.t = "str"
         \/ /\ value.t = "arr"
            /\ \A i \in 1..Min(Len(value.v), 5) : value.v[i].t = "str"

\* lines 894-897: the step's result x, with the exception the prints raise
AfterResumePrints(x) ==
    IF x.exc = "none" /\ JoinFails(x.val.f[<<"key_skills">>])
    THEN [x EXCEPT !.exc = "TypeError"] ELSE x

\* enhanced_job_processor, step 1, with the failure carried on instead of
\* re-raised: the run goes on to the browser whatever the extraction gave
ResumeParsed_Continues(b, x) ==
    /\ ret' = StepRet("resume", x, b)
    /\ Requested("resume", x)
    /\ resume_info' = x.val
    /\ pc' = "browser"

ResumeParsed(b, x) ==
    /\ ret' = StepRet("resume", x, b)
    /\ Requested("resume", x)
    /\ resume_info' = x.val
    /\ pc' = IF x.exc = "none" THEN "browser" ELSE "aborted"

ParseResumeAs(b, c) ==
    /\ proc' = c.obj
    /\ inits' = inits + c.n
    /\ ResumeParsed(b, IF c.err # NoError THEN ExtractFails("ValueError", NotCalled)
                       ELSE AfterResumePrints(LlmExtractResumeInfo(c.obj, ResumeText, b)))

\* step 1: resume_info = parse_resume(resume_path)
ParseResume(b) ==
    /\ pc = "start"
    /\ ParseResumeAs(b, NewProcessor(env, genai))
    /\ UNCHANGED <<cfgVars, gen, browser, page, page_title, queried, job_description,
                   job_data, files>>

\* lines 910-915 without the handler of lines 985-986
OpenPage_Propagates(loaded) ==
    /\ pc = "browser"
    /\ browser' = IF loaded = LoadFailure THEN "closed" ELSE "open"
    /\ page' = loaded
    /\ page_title' = IF loaded = LoadFailure THEN page_title ELSE loaded.title
    /\ pc' = IF loaded = LoadFailure THEN "aborted" ELSE "selectors"
    /\ ret' = [t |-> "goto", exc |-> IF loaded = LoadFailure THEN "Exception" ELSE "none"]
    /\ UNCHANGED <<cfgVars, proc, inits, llmVars, gen, queried, job_description,
                   resume_info, job_data, files>>

\* lines 910-915: launch the browser, open the page, read its title
OpenPage(loaded) ==
    /\ pc = "browser"
    /\ browser' = "open"
    /\ page' = loaded
    /\ page_title' = IF loaded = LoadFailure THEN page_title ELSE loaded.title
    /\ pc' = IF loaded = LoadFailure THEN "close" ELSE "selectors"
    /\ ret' = [t |-> "goto", exc |-> "none"]
    /\ UNCHANGED <<cfgVars, proc, inits, llmVars, gen, queried, job_description,
                   resume_info, job_data, files>>

WalkedAs(w) ==
    /\ job_description' = w.job_description
    /\ queried' = w.queried

\* lines 953-963: the selector loop
SelectorLoop ==
    /\ pc = "selectors"
    /\ WalkedAs(WalkSelectors(page.elements, 1, <<>>))
    /\ pc' = "fallback"
    /\ ret' = [t |-> "selectors", exc |-> "none"]
    /\ UNCHANGED <<cfgVars, proc, inits, llmVars, gen, browser, page, page_title,
                   resume_info, job_data, files>>

FallbackCalled(b, c, r) ==
    /\ Requested("distill", r)
    /\ ret' = [t |-> "distill", exc |-> "none", payload |-> r.payload, ok |-> r.ok,
               backend |-> b, tried |-> TRUE,
               caught |-> IF c.err # NoError THEN "ValueError" ELSE DistilledOf(r).caught]
    /\ job_description' = DistilledOf(r).job_description

FallbackAs(b, c) ==
    /\ proc' = c.obj
    /\ inits' = inits + c.n
    /\ FallbackCalled(b, c, DistillWith(c, page.body, b))

\* lines 966-983: the body-text fallback
BodyFallback(b) ==
    /\ pc = "fallback"
    /\ IF ~Truthy(job_description) /\ BodyQualifies(page.body)
       THEN FallbackAs(b, NewProcessor(env, genai))
       ELSE /\ ret' = [t |-> "distill", exc |-> "none", payload |-> PyNone, ok |-> FALSE,
                       backend |-> NoBackend, tried |-> FALSE,
                       caught |-> IF ~Truthy(job_description) /\ page.body = QueryRaises
                                  THEN "Error" ELSE "none"]
            /\ UNCHANGED <<proc, inits, llmVars, job_description>>
    /\ pc' = "close"
    /\ UNCHANGED <<cfgVars, gen, browser, page, page_title, queried, resume_info,
                   job_data, files>>

\* the block of lines 905-988 without line 988: the browser is left to the
\* exit of the playwright context
CloseBrowser_Skipped ==
    /\ pc = "close"
    /\ pc' = "jobinfo"
    /\ ret' = [t |-> "close", exc |-> "none"]
    /\ UNCHANGED <<cfgVars, proc, inits, llmVars, gen, browser, page, page_title, queried,
                   job_description, resume_info, job_data, files>>

\* line 988: await browser.close()
CloseBrowser ==
    /\ pc = "close"
    /\ browser' = "closed"
    /\ page' = IF page = LoadFailure THEN page ELSE [page EXCEPT !.elements = NoElements]
    /\ pc' = "jobinfo"
    /\ ret' = [t |-> "close", exc |-> "none"]
    /\ UNCHANGED <<cfgVars, proc, inits, llmVars, gen, page_title, queried,
                   job_description, resume_info, job_data, files>>

\* lines 1006-1011: later keys of the dict display win
BuildJobData_InfoWins(job_info, url, title, description) ==
    Obj(job_info.f @@ (<<"application_url">> :> url) @@ (<<"page_title">> :> title)
          @@ (<<"description">> :> description))

BuildJobData(job_info, url, title, description) ==
    Obj((<<"application_url">> :> url) @@ (<<"page_title">> :> title)
          @@ (<<"description">> :> description) @@ job_info.f)

\* lines 992-1003: the step's result x, with the exception the prints raise
AfterJobPrints(x) ==
    IF x.exc = "none" /\ JoinFails(DictGet(x.val, <<"required_skills">>, Arr(<<>>)).val)
    THEN [x EXCEPT !.exc = "TypeError"] ELSE x

JobInfoExtracted(b, x) ==
    /\ ret' = StepRet("job_info", x, b)
    /\ Requested("job_info", x)
    /\ job_data' = IF x.exc = "none"
                   THEN BuildJobData(x.val, args.url, page_title, job_description)
                   ELSE PyNone
    /\ pc' = IF x.exc = "none" THEN "coverletter" ELSE "aborted"

ExtractJobInfoAs(b, c) ==
    /\ proc' = c.obj
    /\ inits' = inits + c.n
    /\ JobInfoExtracted(b, IF c.err # NoError THEN ExtractFails("ValueError", NotCalled)
                           ELSE AfterJobPrints(LlmExtractJobInfo(c.obj, args.url, page_title,
                                                                 job_description, b)))

\* steps 3 and 4: extract_job_info_from_url_and_title, then job_data
ExtractJobInfo(b) ==
    /\ pc = "jobinfo"
    /\ ExtractJobInfoAs(b, NewProcessor(env, genai))
    /\ UNCHANGED <<cfgVars, gen, browser, page, page_title, queried, job_description,
                   resume_info, files>>

----------------------------------------------------------------------------
(* LLMCoverLetterGenerator (src/llm_cover_letter.py) *)

\* the answer to GET {base_url}/api/tags: the exception the transport raises,
\* the HTTP status and the names of the models listed
Tags(names) == [exc |-> "none", status |-> StatusOK, names |-> names]
TagsAnswers ==
    {Tags(<<ModelValue>>), Tags(<<Lit("mistral"), ModelValue>>), Tags(<<Lit("mistral")>>),
     Tags(<<>>), [Tags(<<ModelValue>>) EXCEPT !.status = 500],
     [Tags(<<>>) EXCEPT !.exc = "ConnectionError"]}

InList(x, list) == \E i \in DOMAIN list : list[i] = x

\* _test_local_connection
TestLocalConnection(attrs, tags) ==
    IF tags.exc # "none" \/ tags.status # StatusOK
    THEN [attrs |-> attrs, err |-> ValueError("no_connection", {})]
    ELSE IF ~InList(GetAttr(attrs, 1, "model"), tags.names) /\ tags.names # <<>>
         THEN [attrs |-> SetAttr(attrs, 1, "model", tags.names[1]), err |-> NoError]
         ELSE [attrs |-> attrs, err |-> NoError]

DefaultTemperature == [t |-> "float", v |-> <<"0", ".", "7">>]
DefaultMaxTokens == Num(<<"2", "0", "0", "0">>)

\* lines 67-70
LocalAttrs(base_url, model) ==
    SetAttr(SetAttr(SetAttr(SetAttr(NoAttrs, 1, "base_url", base_url), 1, "model", model),
                    0, "temperature", DefaultTemperature), 0, "max_tokens", DefaultMaxTokens)

\* _init_tier1_config
InitTier1Config(e, g, provider, tags) ==
    LET api_key  == getenv(e, VarName(provider, "_API_KEY"))
        base_url == PyOr(getenv(e, VarName(provider, "_BASE_URL")),
                         getenv(e, VarName(provider, "_HOST")))
        model    == getenv(e, VarName(provider, "_MODEL"))
        a1 == SetAttr(NoAttrs, 1, "api_key", api_key)
        a2 == SetAttr(a1, 1, "model", PyOr(model, Str(<<provider, "-default">>)))
    IN  IF Truthy(api_key)
        THEN IF HasGemini(provider)
             THEN IF g
                  THEN [attrs |-> SetAttr(a2, 1, "client",
                                   GenerativeModel(PyOr(model, Lit("gemini-1.5-flash")))),
                        err |-> NoError]
                  ELSE [attrs |-> a2, err |-> ValueError("no_package", {})]
             ELSE [attrs |-> a2, err |-> NoError]
        ELSE IF Truthy(base_url)
        THEN IF ~Truthy(model)
             THEN [attrs |-> LocalAttrs(base_url, model),
                   err |-> ValueError("no_model", {VarName(provider, "_MODEL")})]
             ELSE TestLocalConnection(LocalAttrs(base_url, model), tags)
        ELSE [attrs |-> NoAttrs,
              err |-> ValueError("no_config", {VarName(provider, "_API_KEY"),
                                              VarName(provider, "_BASE_URL"),
                                              VarName(provider, "_HOST")})]

GeneratorOf(provider, r) ==
    IF r.err # NoError THEN [obj |-> NoObject, err |-> r.err, n |-> 1]
    ELSE [obj |-> [t |-> "LLMCoverLetterGenerator", tier1_provider |-> provider,
                   attrs |-> r.attrs],
          err |-> NoError, n |-> 1]

\* LLMCoverLetterGenerator(): the object constructed, or the error raised
NewGenerator(e, g, tags) ==
    IF ~Truthy(getenv(e, Tier1Key))
    THEN [obj |-> NoObject, err |-> ValueError("no_tier1", {Tier1Key}), n |-> 0]
    ELSE GeneratorOf(LowerStr(getenv(e, Tier1Key)),
                     InitTier1Config(e, g, LowerStr(getenv(e, Tier1Key)), tags))

\* what the generator's call returns (val) or raises (exc # "none")
Responds(val, req) == [val |-> val, exc |-> "none", req |-> req]
CallFails(req) == [val |-> PyNone, exc |-> "Exception", req |-> req]

\* LLMCoverLetterGenerator._call_api_service
GenCallApiService(attrs, prompt, b) ==
    IF HasAttr(attrs, 1, "client")
    THEN LET req == [t |-> "generate_content", client |-> GetAttr(attrs, 1, "client"),
                     prompt |-> prompt]
         IN  IF b.exc = "none" /\ Truthy(b.text) /\ b.text.t = "str"
             THEN Responds(Str(Strip(b.text.v)), req)
             ELSE CallFails(req)
    ELSE CallFails(NoRequest)

GenerateTimeout == 120

\* response.json() of the local generate endpoint
GenerateBody(b) ==
    CASE b.shape = "content"    -> Obj(<<"response">> :> b.text)
      [] b.shape = "no_content" -> Obj(EmptyMap)
      [] b.shape = "no_message" -> Obj(EmptyMap)
      [] b.shape = "array"      -> Arr(<<b.text>>)
      [] OTHER                  -> InvalidBody

\* LLMCoverLetterGenerator._call_local_service
GenCallLocalService(attrs, prompt, b) ==
    LET req == [t |-> "POST", url |-> <<GetAttr(attrs, 1, "base_url"), "/api/generate">>,
                json |-> [model |-> GetAttr(attrs, 1, "model"), prompt |-> prompt,
                          stream |-> FALSE,
                          options |-> [temperature |-> GetAttr(attrs, 0, "temperature"),
                                       num_predict |-> GetAttr(attrs, 0, "max_tokens")]],
                timeout |-> GenerateTimeout]
        response == DictGet(GenerateBody(b), <<"response">>, Str(<<>>))
    IN  IF b.exc = "none" /\ b.status = StatusOK /\ response.ok /\ response.val.t = "str"
        THEN Responds(Str(Strip(response.val.v)), req)
        ELSE CallFails(req)

\* _call_tier1_llm
CallTier1Llm(attrs, prompt, b) ==
    IF HasAttr(attrs, 1, "api_key") THEN GenCallApiService(attrs, prompt, b)
    ELSE IF HasAttr(attrs, 1, "base_url") THEN GenCallLocalService(attrs, prompt, b)
    ELSE CallFails(NoRequest)

\* resume_text.split('\n'), from position i on; line is the line being read
RECURSIVE SplitLines(_, _, _)
SplitLines(s, i, line) ==
    IF i > Len(s) THEN <<line>>
    ELSE IF s[i] = "\n" THEN <<line>> \o SplitLines(s, i + 1, <<>>)
    ELSE SplitLines(s, i + 1, Append(line, s[i]))

\* line.split(): the words of a line
Words(line) == SelectSeq(line, LAMBDA c : c \notin Whitespace)

\* the words that hold 'phone', 'email', '@', 'linkedin' or 'experience', and
\* the words the e-mail pattern of line 225 matches
KeywordWords == {"jane@example.com", "experience", "Phone", "Email", "LinkedIn"}
EmailWords == {"jane@example.com"}

NameLike(line) ==
    /\ Len(Words(line)) \in 2..3
    /\ \A j \in DOMAIN line : line[j] \notin KeywordWords

\* lines 216-222: the first of the first five non-empty lines that looks like a name
RECURSIVE FirstName(_, _)
FirstName(lines, i) ==
    IF i > Min(Len(lines), 5) THEN Lit("Candidate")
    ELSE IF NameLike(lines[i]) THEN Str(lines[i])
    ELSE FirstName(lines, i + 1)

RECURSIVE FirstEmail(_, _)
FirstEmail(s, i) ==
    IF i > Len(s) THEN Lit("candidate@email.com")
    ELSE IF s[i] \in EmailWords THEN Lit(s[i])
    ELSE FirstEmail(s, i + 1)

StrippedLines(s) ==
    SelectSeq([i \in DOMAIN SplitLines(s, 1, <<>>) |-> Strip(SplitLines(s, 1, <<>>)[i])],
              LAMBDA l : l # <<>>)

\* _extract_candidate_info; the resumes explored hold no phone number,
\* LinkedIn URL, count of years or title the patterns of lines 230-253 match
ExtractCandidateInfo(resume_text) ==
    [name |-> FirstName(StrippedLines(resume_text.v), 1),
     email |-> FirstEmail(resume_text.v, 1),
     phone |-> Str(<<>>), linkedin |-> Str(<<>>), years_experience |-> Num(<<"0">>),
     current_title |-> Str(<<>>)]

NoDescriptionNote == Lit("Job description not available - please create a cover letter based on the position title and company.")

\* _build_cover_letter_prompt
BuildCoverLetterPrompt(candidate_info, resume_text, job_info, instructions) ==
    <<Lit("You are an expert career coach"), candidate_info.name, candidate_info.email,
      candidate_info.current_title, candidate_info.years_experience,
      DictGet(job_info, <<"job_title">>, Lit("the position")).val,
      DictGet(job_info, <<"company">>, Lit("the company")).val,
      DictGet(job_info, <<"location">>, Lit("Various")).val,
      PyOr(DictGet(job_info, <<"description">>, Str(<<>>)).val, NoDescriptionNote),
      resume_text, PyOr(instructions, Lit("No additional instructions provided.")),
      Lit("Please write the complete cover letter now:")>>

\* ---- _post_process_cover_letter, on a letter as a sequence of characters
\* where a word, a closing line ("Sincerely,") and a marker ("**Quick Hits:**")
\* each count as one character

\* lines 346-350: what the first line of the letter proper starts with
StartMarkers ==
    {<<"**Quick Hits:**">>, <<"Quick Hits:">>, <<"*", " ", "Ensure engineering">>,
     <<"Dear", " ">>, <<"To the Hiring">>}

\* lines 343-352: the first line that starts the letter proper, else the first
RECURSIVE StartIdx(_, _)
StartIdx(lines, i) ==
    IF i > Len(lines) THEN 1
    ELSE IF \E m \in StartMarkers : StartsWith(Strip(lines[i]), m) THEN i
    ELSE StartIdx(lines, i + 1)

\* '\n'.join(lines[i:])
RECURSIVE JoinLines(_, _)
JoinLines(lines, i) ==
    IF i > Len(lines) THEN <<>>
    ELSE IF i = Len(lines) THEN lines[i]
    ELSE lines[i] \o <<"\n">> \o JoinLines(lines, i + 1)

\* lines 340-355
DropIntroduction(s) ==
    JoinLines(SplitLines(s, 1, <<>>), StartIdx(SplitLines(s, 1, <<>>), 1))

QuickHitsMarker == "**Quick Hits:**"
\* the characters that are or begin with an asterisk, the words that begin
\* with a capital letter, and the words 'Dear', 'To the', 'With over' open
Stars == {"*", QuickHitsMarker}
CapitalWords == {"Dear", "To the Hiring", "With over", "Quick Hits:", "Ensure engineering",
                 "Jane", "Doe", "I", "Here", "Hiring", "Manager", "Sincerely,", "Thanks,",
                 "Best regards,", "Built", "Led"}
SectionOpeners == {"Dear", "To the Hiring", "With over"}

\* index of the first x in s from i on, 0 if none
RECURSIVE IndexOf(_, _, _)
IndexOf(s, x, i) ==
    IF i > Len(s) THEN 0 ELSE IF s[i] = x THEN i ELSE IndexOf(s, x, i + 1)

\* [\*\s]* before the marker at m: where the run of asterisks and whitespace
\* that ends there begins
RECURSIVE RunStart(_, _)
RunStart(s, m) ==
    IF m > 1 /\ s[m - 1] \in {"*"} \cup Whitespace THEN RunStart(s, m - 1) ELSE m

\* .*?(?=\n\n[A-Z]|Dear|To the|With over) from q: where the section ends
\* (exclusive), 0 if the lookahead holds nowhere
RECURSIVE QuickHitsEnd(_, _)
QuickHitsEnd(s, q) ==
    IF q > Len(s) THEN 0
    ELSE IF \/ s[q] \in SectionOpeners
            \/ q + 2 <= Len(s) /\ s[q] = "\n" /\ s[q + 1] = "\n" /\ s[q + 2] \in CapitalWords
         THEN q
         ELSE QuickHitsEnd(s, q + 1)

\* ([^*]+?)(?=\*|$) from j: where the bullet ends (exclusive)
RECURSIVE BulletEnd(_, _)
BulletEnd(t, j) ==
    IF j > Len(t) \/ t[j] \in Stars THEN j ELSE BulletEnd(t, j + 1)

\* line 365 and lines 369-370: re.findall(r'\* ([^*]+?)(?=\*|$)', t) from i
\* on, each bullet stripped and written as "* bullet\n"
RECURSIVE FormatBullets(_, _)
FormatBullets(t, i) ==
    IF i + 2 > Len(t) THEN <<>>
    ELSE IF t[i] \in Stars /\ t[i + 1] = " " /\ t[i + 2] \notin Stars
         THEN <<"*", " ">> \o Strip(SubSeq(t, i + 2, BulletEnd(t, i + 3) - 1)) \o <<"\n">>
                \o FormatBullets(t, BulletEnd(t, i + 3))
         ELSE FormatBullets(t, i + 1)

\* lines 360-374 for the section text t = s[from .. to - 1]
ReformatSection(s, t) ==
    IF FormatBullets(t, 1) = <<>> THEN s
    ELSE Replace(s, t, <<QuickHitsMarker, "\n", "\n">> \o FormatBullets(t, 1) \o <<"\n">>)

\* lines 358-374
FormatQuickHits(s) ==
    IF IndexOf(s, QuickHitsMarker, 1) = 0 THEN s
    ELSE IF QuickHitsEnd(s, IndexOf(s, QuickHitsMarker, 1) + 1) = 0 THEN s
    ELSE ReformatSection(s, SubSeq(s, RunStart(s, IndexOf(s, QuickHitsMarker, 1)),
                                   QuickHitsEnd(s, IndexOf(s, QuickHitsMarker, 1) + 1) - 1))

\* lines 378-382: the closing lines the three patterns match (re.IGNORECASE)
ThanksWords == {"thanks,", "Thanks,"}
RegardsWords == {"Best regards,", "best regards,"}
SincerelyWords == {"Sincerely,", "sincerely,"}
ClosingWords == ThanksWords \cup RegardsWords \cup SincerelyWords

\* index of the last newline in s[i .. e - 1], 0 if none
RECURSIVE LastNewline(_, _, _)
LastNewline(s, i, e) ==
    IF e <= i THEN 0 ELSE IF s[e - 1] = "\n" THEN e - 1 ELSE LastNewline(s, i, e - 1)

\* .*?(?=\n\n|\Z) from q: where it ends (exclusive)
RECURSIVE ParagraphEnd(_, _)
ParagraphEnd(s, q) ==
    IF q > Len(s) THEN q
    ELSE IF q + 1 <= Len(s) /\ s[q] = "\n" /\ s[q + 1] = "\n" THEN q
    ELSE ParagraphEnd(s, q + 1)

\* \n<closing>\s*\n+.*?(?=\n\n|\Z) at i: where the match ends (exclusive), 0
\* if there is none; \s* runs on to the last newline of the whitespace that
\* follows the closing
SignatureEnd(s, i, closings) ==
    IF /\ i + 1 <= Len(s) /\ s[i] = "\n" /\ s[i + 1] \in closings
       /\ LastNewline(s, i + 2, SkipWs(s, i + 2)) # 0
    THEN ParagraphEnd(s, LastNewline(s, i + 2, SkipWs(s, i + 2)) + 1)
    ELSE 0

\* line 386: re.sub(pattern, '', cover_letter) from i on
RECURSIVE RemoveSignatures(_, _, _)
RemoveSignatures(s, i, closings) ==
    IF i > Len(s) THEN <<>>
    ELSE IF SignatureEnd(s, i, closings) # 0
         THEN RemoveSignatures(s, SignatureEnd(s, i, closings), closings)
         ELSE <<s[i]>> \o RemoveSignatures(s, i + 1, closings)

\* lines 385-386: the three patterns, one after another
RemoveAllSignatures(s) ==
    RemoveSignatures(RemoveSignatures(RemoveSignatures(s, 1, ThanksWords),
                                      1, RegardsWords), 1, SincerelyWords)

\* lines 393-400
ContactLines(candidate_info) ==
    (IF Truthy(candidate_info.email) /\ candidate_info.email # Lit("candidate@email.com")
     THEN <<"\n">> \o candidate_info.email.v ELSE <<>>)
      \o (IF Truthy(candidate_info.linkedin)
          THEN <<"\n">> \o candidate_info.linkedin.v ELSE <<>>)

\* lines 389-400
Sign(s, candidate_info) ==
    Strip(s) \o <<"\n", "\n", "thanks,", "\n", "\n">> \o candidate_info.name.v
      \o ContactLines(candidate_info)

\* line 403: re.sub(r'\n{3,}', '\n\n', ...); line 404: re.sub(r' +', ' ', ...)
RECURSIVE CollapseNewlines(_)
CollapseNewlines(s) ==
    IF s = <<>> THEN <<>>
    ELSE IF StartsWith(s, <<"\n", "\n", "\n">>) THEN CollapseNewlines(Tail(s))
    ELSE <<Head(s)>> \o CollapseNewlines(Tail(s))

RECURSIVE CollapseSpaces(_)
CollapseSpaces(s) ==
    IF s = <<>> THEN <<>>
    ELSE IF StartsWith(s, <<" ", " ">>) THEN CollapseSpaces(Tail(s))
    ELSE <<Head(s)>> \o CollapseSpaces(Tail(s))

\* _post_process_cover_letter with the clean-up of lines 403-404 made before
\* the signature is appended
PostProcessCoverLetter_CleanFirst(response, candidate_info) ==
    Str(Strip(Sign(CollapseSpaces(CollapseNewlines(
          RemoveAllSignatures(FormatQuickHits(DropIntroduction(response.v))))),
               candidate_info)))

\* _post_process_cover_letter(cover_letter, candidate_info)
PostProcessCoverLetter(response, candidate_info) ==
    Str(Strip(CollapseSpaces(CollapseNewlines(
          Sign(RemoveAllSignatures(FormatQuickHits(DropIntroduction(response.v))),
               candidate_info)))))

\* lines 124-132 without the check of lines 127-128
LetterOf_EmptyAccepted(r, candidate_info) ==
    IF r.exc # "none" THEN [val |-> PyNone, exc |-> r.exc, req |-> r.req]
    ELSE [val |-> PostProcessCoverLetter(r.val, candidate_info), exc |-> "none",
          req |-> r.req]

\* lines 124-132 on what the tier-1 call returned
LetterOf(r, candidate_info) ==
    IF r.exc # "none" THEN [val |-> PyNone, exc |-> r.exc, req |-> r.req]
    ELSE IF ~Truthy(r.val) THEN [val |-> PyNone, exc |-> "Exception", req |-> r.req]
    ELSE [val |-> PostProcessCoverLetter(r.val, candidate_info), exc |-> "none",
          req |-> r.req]

\* generator.generate_cover_letter(resume_text, job_info, instructions)
GenGenerateCoverLetter(attrs, resume_text, job_info, instructions, b) ==
    LetterOf(CallTier1Llm(attrs,
                          BuildCoverLetterPrompt(ExtractCandidateInfo(resume_text),
                                                 resume_text, job_info, instructions), b),
             ExtractCandidateInfo(resume_text))

\* generate_llm_cover_letter; g is the generator line 428 constructs
GenerateLlmCoverLetter(g, resume_text, job_info, b) ==
    IF g.err # NoError THEN [val |-> PyNone, exc |-> "ValueError", req |-> NoRequest]
    ELSE GenGenerateCoverLetter(g.obj.attrs, resume_text, job_info, Str(<<>>), b)

\* what the tier-1 service answers
LetterText == <<"Here", " ", "is", " ", "your", " ", "letter", "\n", "Dear", " ",
                "Hiring", " ", "Manager", ",", "\n", "\n", "I", " ", "build", " ",
                "things", "\n", "\n", "Sincerely,", "\n", "Jane", " ", "Doe", "\n">>
LetterBackends ==
    {Answer(Str(LetterText)), Answer(Str(<<" ", "\n">>)), Answer(Str(<<>>)),
     Failure("Timeout"), [Answer(Str(LetterText)) EXCEPT !.status = 500]}

LetterWritten(b, g, x) ==
    /\ gen' = g.obj
    /\ inits' = inits + g.n
    /\ Requested("cover_letter", x)
    /\ ret' = [t |-> "cover_letter", exc |-> x.exc, cover_letter |-> x.val, backend |-> b]
    /\ pc' = IF x.exc = "none" THEN "save" ELSE "aborted"

GenerateCoverLetterAs(b, g, resume_text) ==
    IF ~Truthy(resume_text)
    THEN LetterWritten(b, [obj |-> NoObject, err |-> NoError, n |-> 0],
                       [val |-> PyNone, exc |-> "Exception", req |-> NoRequest])
    ELSE LetterWritten(b, g, GenerateLlmCoverLetter(g, resume_text, job_data, b))

\* generate_cover_letter(job_data, resume_info), up to the letter
GenerateCoverLetter(tags, b) ==
    /\ pc = "coverletter"
    /\ GenerateCoverLetterAs(b, NewGenerator(env, genai, tags),
                             DictGet(resume_info, <<"full_content">>, Str(<<>>)).val)
    /\ UNCHANGED <<cfgVars, proc, browser, page, page_title, queried, job_description,
                   resume_info, job_data, files>>

----------------------------------------------------------------------------
(* The output writer: save_cover_letter_to_file *)

\* lines 659-662 and 750-753: the text a company or job title is named by;
\* ok is whether re.sub can take it (it is a str)
NameText(x, default) ==
    LET v == IF x.t = "arr" THEN (IF Truthy(x) THEN x.v[1] ELSE default)
             ELSE IF x.t # "str" THEN (IF Truthy(x) THEN [t |-> "str()", of |-> x]
                                       ELSE default)
             ELSE x
    IN  [ok |-> v.t \in {"str", "str()"}, val |-> v]

\* re.sub(r'[^\w\s-]', '', x).strip(), then re.sub(r'[-\s]+', '_', ...)
Clean(x) == [t |-> "cleaned", of |-> x]

\* for item in value: raises on a value that is there and cannot be iterated
Iterable(value) == ~Truthy(value) \/ value.t \in {"str", "arr", "obj", "text"}

\* lines 813-827: the section that closes the job-details file
ManualCopyNote == [kind |-> "manual",
                   text |-> Lit("Note: Full job description could not be automatically extracted.")]
FullDescription(description) ==
    IF Truthy(description) THEN [kind |-> "text", text |-> description]
    ELSE ManualCopyNote

\* whether lines 706-757 and 775-827 run through for these records
NamesOk(job, resume) ==
    /\ NameText(DictGet(job, <<"company">>, Lit("Unknown_Company")).val,
                Lit("Unknown_Company")).ok
    /\ NameText(DictGet(job, <<"job_title">>, Lit("Position")).val, Lit("Position")).ok
    /\ \/ ~Truthy(DictGet(resume, <<"name">>, PyNone).val)
       \/ DictGet(resume, <<"name">>, PyNone).val.t = "str"
ListsOk(job) ==
    \A k \in {<<"key_requirements">>, <<"required_skills">>, <<"key_responsibilities">>} :
        Iterable(DictGet(job, k, Arr(<<>>)).val)

LetterFile(cover_letter) == [name |-> "coverletter.txt", content |-> cover_letter]
PdfFile(cover_letter) == [name |-> "coverletter.pdf", content |-> cover_letter]
DetailsFile(job) ==
    [name |-> "JobDetails.txt",
     job_title |-> DictGet(job, <<"job_title">>, Lit("Unknown")).val,
     company |-> DictGet(job, <<"company">>, Lit("Unknown")).val,
     application_url |-> DictGet(job, <<"application_url">>, Lit("Unknown")).val,
     page_title |-> DictGet(job, <<"page_title">>, Lit("Unknown")).val,
     full_description |-> FullDescription(DictGet(job, <<"description">>, PyNone).val)]

\* what the file system and the PDF library do: whether each write succeeds
SaveOutcomes ==
    {[txt |-> TRUE, pdf |-> TRUE, details |-> TRUE],
     [txt |-> TRUE, pdf |-> FALSE, details |-> TRUE],
     [txt |-> TRUE, pdf |-> TRUE, details |-> FALSE],
     [txt |-> FALSE, pdf |-> TRUE, details |-> TRUE]}

\* save_cover_letter_to_file with a PDF failure that is not caught: the
\* function ends at the failure and returns None
Written_PdfFatal(cover_letter, job, resume, o, c) ==
    IF c.err # NoError \/ ~NamesOk(job, resume) \/ ~o.txt
    THEN [files |-> <<>>, done |-> FALSE]
    ELSE IF ~o.pdf
    THEN [files |-> <<LetterFile(cover_letter)>>, done |-> FALSE]
    ELSE [files |-> <<LetterFile(cover_letter), PdfFile(cover_letter)>>
                      \o (IF ListsOk(job) /\ o.details THEN <<DetailsFile(job)>> ELSE <<>>),
          done |-> ListsOk(job) /\ o.details]

\* the files written, in order, and whether the function got to its end
Written(cover_letter, job, resume, o, c) ==
    IF c.err # NoError \/ ~NamesOk(job, resume) \/ ~o.txt
    THEN [files |-> <<>>, done |-> FALSE]
    ELSE [files |-> <<LetterFile(cover_letter)>>
                      \o (IF o.pdf THEN <<PdfFile(cover_letter)>> ELSE <<>>)
                      \o (IF ListsOk(job) /\ o.details THEN <<DetailsFile(job)>> ELSE <<>>),
          done |-> ListsOk(job) /\ o.details]

SavedAs(o, c, w) ==
    /\ proc' = c.obj
    /\ inits' = inits + c.n
    /\ files' = files \o w.files
    /\ ret' = [t |-> "save", exc |-> "none", outcome |-> o,
               folder_name |-> IF w.done THEN Clean(job_data) ELSE PyNone]
    /\ pc' = "done"

SaveAs(o, c) == SavedAs(o, c, Written(ret.cover_letter, job_data, resume_info, o, c))

\* save_cover_letter_to_file(cover_letter, company, job_data, resume_info)
SaveCoverLetterToFile(o) ==
    /\ pc = "save"
    /\ SaveAs(o, NewProcessor(env, genai))
    /\ UNCHANGED <<cfgVars, llmVars, gen, browser, page, page_title, queried,
                   job_description, resume_info, job_data>>

NextPipeline ==
    \/ \E b \in PipelineBackends : ParseResume(b)
    \/ \E loaded \in Pages \cup {LoadFailure} : OpenPage(loaded)
    \/ SelectorLoop
    \/ \E b \in PipelineBackends : BodyFallback(b)
    \/ CloseBrowser
    \/ \E b \in PipelineBackends : ExtractJobInfo(b)
    \/ \E tags \in TagsAnswers, b \in LetterBackends : GenerateCoverLetter(tags, b)
    \/ \E o \in SaveOutcomes : SaveCoverLetterToFile(o)

SpecPipeline == InitPipeline /\ [][NextPipeline]_vars

----------------------------------------------------------------------------
(* Claims on the extractors and the content extractor *)

ExtractorStep == ret.t \in {"resume", "job_info"}

\* C6: whenever the tier-2 dispatcher call of _llm_extract_resume_info or of
\* _llm_extract_job_info returns ok=False, or an empty payload, the extractor
\* raises and no record comes back: resume_info (resp. job_data) stays unset
\* and the run is over.
C6_ExtractorsFailFast ==
    (ExtractorStep /\ (~ret.ok \/ ~Truthy(ret.payload))) =>
        /\ ret.exc # "none"
        /\ pc = "aborted"
        /\ ret.t = "resume" => resume_info = PyNone
        /\ ret.t = "job_info" => job_data = PyNone

\* a request went out for the job info, the dispatcher reported a failure,
\* and the extractor raised
C6_Witness ==
    /\ ret.t = "job_info" /\ sent # NoRequest /\ ~ret.ok
    /\ ret.exc = "Exception" /\ job_data = PyNone

\* the element selector i matches holds more than 150 characters once stripped
Qualifies(i) ==
    page.elements[i].t = "text" /\ page.elements[i].len > SelectorMinChars

FirstQualifying ==
    CHOOSE i \in 1..NumSelectors : Qualifies(i) /\ \A j \in 1..(i - 1) : ~Qualifies(j)

\* C7: after the selector loop the job description is the stripped text of
\* the first selector, in list order, whose element holds more than 150
\* characters of stripped text, and the selectors queried are exactly those up
\* to it; elements with 150 characters or fewer and selectors that raise are
\* passed over; when no selector qualifies all of them were queried and the
\* job description is None.
C7_FirstMatchWins ==
    ret.t = "selectors" =>
        IF \E i \in 1..NumSelectors : Qualifies(i)
        THEN /\ job_description = Text(FirstQualifying, page.elements[FirstQualifying].len, 0)
             /\ queried = [k \in 1..FirstQualifying |-> k]
        ELSE /\ job_description = PyNone
             /\ queried = [k \in 1..NumSelectors |-> k]

\* the 1st and the 5th selector both qualify and the 1st one's text is taken
C7_Witness ==
    /\ ret.t = "selectors" /\ Qualifies(1) /\ Qualifies(5)
    /\ job_description = TextStrip(page.elements[1])
    /\ queried = <<1>>

\* C8 (as stated): when no selector gave text and the body text exceeds 300
\* characters, a successful (ok=True) distillation call makes the job
\* description the text the LLM returned, whatever the form of the payload;
\* the job description stays None only if the call fails.
C8_SuccessGivesDescription ==
    (ret.t = "distill" /\ ret.tried /\ ret.ok) => job_description # PyNone

SelectorAccepted ==
    job_description.t = "text" /\ job_description.src \in 1..NumSelectors

DetailsFiles == {i \in DOMAIN files : files[i].name = "JobDetails.txt"}

\* C9: whenever a selector's text was accepted, no distillation call is made
\* in the run, the description of the final job data is that text whatever
\* description the LLM-extracted job info holds, and the job-details file
\* closes with the full-description section holding that text, not with the
\* manual-copy instructions.
C9_SelectorTextIsFinal ==
    SelectorAccepted =>
        /\ ~InList("distill", log)
        /\ job_data # PyNone => job_data.f[<<"description">>] = job_description
        /\ \A i \in DetailsFiles :
              files[i].full_description = [kind |-> "text", text |-> job_description]

C9_Witness ==
    /\ SelectorAccepted /\ pc = "done" /\ DetailsFiles # {}
    /\ job_data.f[<<"description">>] = job_description

\* the fallback has run on a page where no selector gave text and whose body
\* text holds 300 characters or fewer once stripped
ShortBodyRun ==
    /\ pc \in {"close", "jobinfo", "coverletter", "save", "done", "aborted"}
    /\ page.t = "page" /\ page.body.t = "text" /\ page.body.len <= BodyMinChars
    /\ Len(queried) = NumSelectors /\ ~SelectorAccepted

\* the LLM answered the step with what the step needs
GoodJobInfo ==
    /\ ret.t = "job_info" /\ ret.ok /\ Truthy(ret.payload) /\ ret.payload.t = "obj"
    /\ ~JoinFails(DictGet(ret.payload, <<"required_skills">>, Arr(<<>>)).val)
GoodLetter ==
    /\ ret.t = "cover_letter" /\ gen # NoObject /\ TransportOK(ret.backend)
    /\ ret.backend.text.t = "str" /\ Strip(ret.backend.text.v) # <<>>

\* C10: when no selector gave text and the body text holds 300 characters or
\* fewer once stripped, no distillation call is made, the job description and
\* the description of the final job data are None, job-info extraction and
\* cover-letter generation go through whenever the LLM answers them (the
\* absent description is no error), and the job-details file closes with the
\* manual-copy instructions.
C10_ShortBodyNoDescription ==
    ShortBodyRun =>
        /\ job_description = PyNone
        /\ ~InList("distill", log)
        /\ job_data # PyNone => job_data.f[<<"description">>] = PyNone
        /\ GoodJobInfo => (ret.exc = "none" /\ pc = "coverletter")
        /\ GoodLetter => (ret.exc = "none" /\ pc = "save")
        /\ \A i \in DetailsFiles : files[i].full_description = ManualCopyNote

C10_Witness ==
    /\ ShortBodyRun /\ pc = "done" /\ DetailsFiles # {}
    /\ page.body.len + page.body.pad > BodyMinChars
    /\ InList("job_info", log) /\ InList("cover_letter", log)

-----------------------------------------------------------------------------
(* Post-processing on its own: _post_process_cover_letter applied to every *)
(* short response over the characters that matter to it, and to some       *)
(* longer letters, and applied again to the letter it made.                *)

MaxLetterLen == 5
LetterAlphabet == {"Body", " ", "\n", "Sincerely,", "thanks,"}

QuickHitsLetter ==
    <<"Here", " ", "is", "\n", QuickHitsMarker, " ", "Built", " ", "things", "*", " ",
      "Led", " ", "teams", "\n", "\n", "Dear", " ", "Hiring", " ", "Manager", ",", "\n",
      "\n", "I", " ", "build", "\n", "\n", "Best regards,", "\n", "Jane", " ", "Doe",
      "\n", "\n", "jane@example.com">>
TwoClosingsLetter ==
    <<"To the Hiring", " ", "team", "\n", "\n", "I", " ", "build", "\n", "\n", "Thanks,",
      " ", "\n", "Jane", "\n", "\n", "Body", "\n", "best regards,", "\n", "\n", "Jane">>
SampleLetters == {QuickHitsLetter, TwoClosingsLetter, LetterText}

Letters ==
    UNION {[1..k -> LetterAlphabet] : k \in 1..MaxLetterLen} \cup SampleLetters

\* a name as the first line of a resume gives it, with two spaces inside
WideName == Str(<<"Jane", " ", " ", "Doe">>)

\* the candidates: of the resume, with the default email address, with a
\* LinkedIn URL, and with a name that holds a run of spaces
Candidates ==
    {ExtractCandidateInfo(ResumeText),
     [ExtractCandidateInfo(ResumeText) EXCEPT !.email = Lit("candidate@email.com")],
     [ExtractCandidateInfo(ResumeText) EXCEPT !.linkedin = Lit("linkedin.com/in/jane")],
     [ExtractCandidateInfo(ResumeText) EXCEPT !.name = WideName]}

\* line 132 is reached with a response and the candidate's info
InitLetter ==
    /\ pc = "start"
    /\ genai = FALSE /\ env = NoEnv
    /\ proc = NoObject /\ sent = NoRequest
    /\ calls = 0 /\ inits = 0 /\ log = <<>>
    /\ Launched /\ Idle
    /\ \E l \in Letters, c \in Candidates :
          ret = [t |-> "response", response |-> Str(l), candidate_info |-> c]

\* cover_letter = self._post_process_cover_letter(response, candidate_info)
PostProcess ==
    /\ pc = "start"
    /\ ret' = [t |-> "post_process", response |-> ret.response,
               candidate_info |-> ret.candidate_info, passes |-> 1, once |-> PyNone,
               cover_letter |-> PostProcessCoverLetter(ret.response, ret.candidate_info)]
    /\ pc' = "processed"
    /\ UNCHANGED <<cfgVars, proc, inits, llmVars, runVars>>

\* the same, on the letter the first pass returned
PostProcessAgain ==
    /\ pc = "processed"
    /\ ret' = [ret EXCEPT !.passes = 2, !.once = ret.cover_letter,
                          !.cover_letter =
                              PostProcessCoverLetter(ret.cover_letter, ret.candidate_info)]
    /\ pc' = "reprocessed"
    /\ UNCHANGED <<cfgVars, proc, inits, llmVars, runVars>>

NextLetter == PostProcess \/ PostProcessAgain

SpecLetter == InitLetter /\ [][NextLetter]_vars

\* the signature block of lines 390-400 for a candidate
SignatureBlock(candidate_info) ==
    <<"thanks,", "\n", "\n">> \o CollapseSpaces(candidate_info.name.v)
      \o ContactLines(candidate_info)

\* how many times p stands in s
Occurrences(s, p) ==
    Cardinality({i \in DOMAIN s : StartsWith(SubSeq(s, i, Len(s)), p)})

\* C11 (as stated): for every letter and candidate, post-processing the
\* post-processed letter again for the same candidate gives a letter with
\* exactly one signature block (one 'thanks,' closing followed by the name and
\* the contact lines), equal to the once-processed letter.
C11_PostProcessIdempotent ==
    (ret.t = "post_process" /\ ret.passes = 2) =>
        /\ ret.cover_letter = ret.once
        /\ Occurrences(ret.cover_letter.v, SignatureBlock(ret.candidate_info)) = 1
        /\ Occurrences(ret.cover_letter.v, <<"thanks,">>) = 1

\* the closing lines of a letter, and the lines of a letter that hold the
\* candidate's email address
ClosingsIn(s) == {i \in DOMAIN s : s[i] \in ClosingWords}
EmailsIn(s, candidate_info) == {i \in DOMAIN s : <<s[i]>> = candidate_info.email.v}

\* C12 (as stated): for every response, wherever its closings stand, the
\* post-processed letter holds exactly one closing line among 'thanks,',
\* 'Best regards,' and 'Sincerely,', which is the appended 'thanks,', and no
\* contact line left over from a removed signature block: the candidate's
\* email address stands nowhere but in the appended block.
C12_OneClosingNoLeftover ==
    (ret.t = "post_process" /\ ret.passes = 1) =>
        /\ Cardinality(ClosingsIn(ret.cover_letter.v)) = 1
        /\ Occurrences(ret.cover_letter.v, SignatureBlock(ret.candidate_info)) = 1
        /\ Cardinality(EmailsIn(ret.cover_letter.v, ret.candidate_info)) <= 1

-----------------------------------------------------------------------------
(* Runs of the pipeline as a whole *)

\* both tiers name the same local provider, set up with base URL and model
SameLocalRun ==
    /\ getenv(env, Tier1Key) = Lit("ollama") /\ getenv(env, Tier2Key) = Lit("ollama")
    /\ Truthy(getenv(env, VarName("ollama", "_BASE_URL")))
    /\ Truthy(getenv(env, VarName("ollama", "_MODEL")))

\* the step just made is one that calls the LLM
LlmStepMade ==
    \/ ret.t \in {"resume", "job_info", "cover_letter"}
    \/ ret.t = "distill" /\ ret.tried

\* the request r went to the provider's base URL for the provider's model
TargetsProvider(r, provider) ==
    /\ r # NoRequest
    /\ r.url[1] = getenv(env, VarName(provider, "_BASE_URL"))
    /\ r.json.model = getenv(env, VarName(provider, "_MODEL"))

\* C13 (as stated): in a run where both tiers name the same local provider
\* with a valid base URL and model, the provider is resolved at most once
\* over the whole run, and the LLM call of every step goes to that base URL
\* and model.
C13_ResolvedOnceSameTarget ==
    SameLocalRun =>
        /\ inits <= 1
        /\ LlmStepMade => TargetsProvider(sent, "ollama")

\* the run is over: the last step was made, or an exception ended it
RunEnded == pc \in {"done", "aborted"}

\* the steps that call the LLM, in the order of the pipeline
LlmSteps == <<"resume", "distill", "job_info", "cover_letter">>
StepIndex(purpose) == CHOOSE i \in DOMAIN LlmSteps : LlmSteps[i] = purpose

\* C14 (as stated): once the browser has been closed, the outbound LLM calls
\* of the whole run number exactly one or two.
C14_AsStated ==
    (RunEnded /\ browser = "closed") => calls \in {1, 2}

\* C14 (amended): the outbound LLM calls of a run are made one after another,
\* at most one per step and in the order resume extraction, content
\* distillation, job-info extraction, cover-letter generation; one or two
\* have been made when the browser is closed, at most two more are made after
\* it, and a run that reaches the save step has made three or four in all
\* (four exactly when the body text was distilled).
C14_CallsInSequence ==
    /\ Len(log) = calls
    /\ \A i \in DOMAIN log : log[i] \in {LlmSteps[k] : k \in DOMAIN LlmSteps}
    /\ \A i, j \in DOMAIN log : i < j => StepIndex(log[i]) < StepIndex(log[j])
    /\ pc = "jobinfo" => (browser = "closed" /\ calls \in {1, 2})
    /\ browser = "closed" =>
          Cardinality({i \in DOMAIN log : log[i] \in {"job_info", "cover_letter"}}) <= 2
    /\ pc \in {"save", "done"} =>
          /\ calls \in {3, 4}
          /\ calls = 4 <=> InList("distill", log)

C14_Witness ==
    /\ pc = "done" /\ browser = "closed" /\ calls = 4
    /\ log = LlmSteps

-----------------------------------------------------------------------------
(* The program as launched: __main__ reads the command line, checks the    *)
(* resume file, runs enhanced_job_processor and exits.                     *)

\* lines 1062-1063: the defaults of the defaults
DefaultJobUrl == Lit("https://example.com/job-posting")
DefaultResumePath == Lit("resume.txt")
OtherUrl == Lit("https://jobs.example.com/7")
MissingPath == Lit("missing.txt")

\* os.getenv(key, default)
GetenvOr(e, key, default) == IF e[key] = Unset THEN default ELSE e[key]

\* lines 1062 and 1066
UrlOf(e, a) == IF Len(a) > 0 THEN a[1] ELSE GetenvOr(e, DefaultUrlKey, DefaultJobUrl)
\* lines 1063 and 1067
ResumePathOf(e, a) ==
    IF Len(a) > 1 THEN a[2] ELSE GetenvOr(e, ResumePathKey, DefaultResumePath)

\* a launch: the arguments, DEFAULT_JOB_URL, RESUME_PATH and the paths that
\* exist
Launch(a, u, r, f) == [argv |-> a, url |-> u, path |-> r, fs |-> f]
Launches ==
    {Launch(<<>>, Unset, Unset, {DefaultResumePath}),
     Launch(<<>>, OtherUrl, ResumePath, {ResumePath}),
     Launch(<<JobUrl, ResumePath>>, OtherUrl, MissingPath, {ResumePath}),
     Launch(<<JobUrl>>, Unset, MissingPath, {ResumePath, DefaultResumePath}),
     Launch(<<JobUrl, MissingPath>>, Unset, ResumePath, {ResumePath, DefaultResumePath}),
     Launch(<<>>, Unset, Unset, {ResumePath}),
     Launch(<<>>, Unset, Str(<<>>), {DefaultResumePath})}

\* the tier settings of .env: sound, a tier unset, a provider that has neither
\* key nor base URL nor host
TierSettings ==
    {(Tier1Key :> Lit("gemini")) @@ (Tier2Key :> Lit("ollama")),
     (Tier1Key :> Unset) @@ (Tier2Key :> Lit("ollama")),
     (Tier1Key :> Lit("gemini")) @@ (Tier2Key :> Unset),
     (Tier1Key :> Lit("openai")) @@ (Tier2Key :> Lit("ollama")),
     (Tier1Key :> Lit("gemini")) @@ (Tier2Key :> Lit("openai"))}

InitMain ==
    /\ pc = "main"
    /\ genai = TRUE
    /\ \E l \in Launches, t \in TierSettings :
          /\ argv = l.argv /\ fs = l.fs
          /\ env = t @@ (DefaultUrlKey :> l.url) @@ (ResumePathKey :> l.path)
                     @@ Hosted("gemini") @@ Local("ollama") @@ NoEnv
    /\ args = NoArgs
    /\ proc = NoObject /\ ret = NoReturn /\ sent = NoRequest
    /\ calls = 0 /\ inits = 0 /\ log = <<>>
    /\ Idle

\* lines 1062-1073 without the check of lines 1070-1073
Main_Unchecked ==
    /\ pc = "main"
    /\ args' = [url |-> UrlOf(env, argv), resume_path |-> ResumePathOf(env, argv)]
    /\ pc' = "start"
    /\ ret' = [t |-> "main"]
    /\ UNCHANGED <<env, genai, argv, fs, proc, inits, llmVars, runVars>>

\* lines 1062-1073: sys.exit(1) when the resume file does not exist
Main ==
    /\ pc = "main"
    /\ args' = [url |-> UrlOf(env, argv), resume_path |-> ResumePathOf(env, argv)]
    /\ IF ResumePathOf(env, argv) \in fs
       THEN pc' = "start" /\ ret' = [t |-> "main"]
       ELSE pc' = "exited" /\ ret' = [t |-> "exit", status |-> 1, after |-> "main"]
    /\ UNCHANGED <<env, genai, argv, fs, proc, inits, llmVars, runVars>>

\* line 1088 returns, after the last step or after the handler of lines
\* 1053-1056: the interpreter exits with status 0
Exit ==
    /\ pc \in {"done", "aborted"}
    /\ pc' = "exited"
    /\ ret' = [t |-> "exit", status |-> 0, after |-> pc]
    /\ UNCHANGED <<cfgVars, proc, inits, llmVars, runVars>>

NextMain == Main \/ NextPipeline \/ Exit

SpecMain == InitMain /\ [][NextMain]_vars

\* the tier of this key names a provider that has neither API key nor base
\* URL nor host
NoEndpoint(key) ==
    /\ Truthy(getenv(env, key))
    /\ \A sfx \in {"_API_KEY", "_BASE_URL", "_HOST"} :
          ~Truthy(getenv(env, VarName(LowerStr(getenv(env, key)), sfx)))

BadConfig ==
    \/ ~Truthy(getenv(env, Tier1Key)) \/ ~Truthy(getenv(env, Tier2Key))
    \/ NoEndpoint(Tier1Key) \/ NoEndpoint(Tier2Key)

\* the run was started: the resume file was found
RunStarted == args # NoArgs /\ args.resume_path \in fs

\* C15 (as stated): when a tier is unset, or names a provider with neither
\* API key nor base URL/host, the run stops at the first step that needs the
\* configuration (resume parsing), no later step is made (no browser, no LLM
\* call, no file), and the process terminates with a non-zero exit status.
C15_ConfigErrorExitsNonZero ==
    (BadConfig /\ RunStarted) =>
        /\ pc \in {"start", "aborted", "exited"}
        /\ browser = "none" /\ calls = 0 /\ files = <<>>
        /\ pc = "exited" => ret.status # 0

\* C16: the URL is the first argument, else DEFAULT_JOB_URL, else the
\* built-in default; the resume path is the second argument, else
\* RESUME_PATH, else the built-in default; and when that path does not exist
\* the process exits with status 1 with no provider resolved, no LLM call
\* made, no browser launched and no file written, while with an existing
\* path the run is started and never exits with status 1.
C16_MissingResumeExitsOne ==
    args # NoArgs =>
        /\ args.url = IF Len(argv) >= 1 THEN argv[1]
                      ELSE IF env[DefaultUrlKey] # Unset THEN env[DefaultUrlKey]
                      ELSE DefaultJobUrl
        /\ args.resume_path = IF Len(argv) >= 2 THEN argv[2]
                              ELSE IF env[ResumePathKey] # Unset THEN env[ResumePathKey]
                              ELSE DefaultResumePath
        /\ args.resume_path \notin fs =>
              /\ pc = "exited" /\ ret.status = 1
              /\ inits = 0 /\ calls = 0 /\ log = <<>> /\ sent = NoRequest
              /\ browser = "none" /\ files = <<>>
        /\ args.resume_path \in fs => (pc = "exited" => ret.status = 0)

C16_Witness ==
    /\ pc = "exited" /\ ret.status = 1
    /\ argv = <<JobUrl>> /\ args.url = JobUrl /\ args.resume_path = MissingPath
    /\ DefaultResumePath \in fs

-----------------------------------------------------------------------------
(* Failures of single steps *)

\* the cover-letter step was made and its tier-1 call failed (an exception
\* of the client or the transport, an HTTP status other than 200 from a local
\* service) or answered with an empty text
Tier1CallFailed ==
    /\ ret.t = "cover_letter" /\ gen # NoObject
    /\ \/ ret.backend.exc # "none"
       \/ KindOf(gen.attrs, 1) = "LocalService" /\ ret.backend.status # StatusOK
       \/ Strip(ret.backend.text.v) = <<>>

\* C17: whenever the tier-1 call of the cover-letter step fails or answers
\* with an empty text, the step raises instead of returning a letter (what it
\* returns is always a non-empty letter), the run ends there, the output
\* writer is not invoked and no file is written in the run.
C17_LetterFailsFast ==
    /\ Tier1CallFailed =>
          /\ ret.exc # "none" /\ ret.cover_letter = PyNone
          /\ pc = "aborted" /\ files = <<>>
    /\ (ret.t = "cover_letter" /\ ret.exc = "none") =>
          (ret.cover_letter.t = "str" /\ ret.cover_letter.v # <<>>)
    /\ pc = "aborted" => files = <<>>
    /\ ret.t = "save" => InList("cover_letter", log)

C17_Witness ==
    /\ Tier1CallFailed /\ pc = "aborted"
    /\ ret.backend = Answer(Str(<<" ", "\n">>))
    /\ InList("cover_letter", log)

\* the user prompt of a request: the last message of a chat request, the
\* prompt of a generate_content request
PromptOf(r) ==
    IF r.t = "POST" THEN r.json.messages[Len(r.json.messages)].content ELSE r.prompt

\* the prompt of lines 611-636 for a URL and a title alone
UrlTitlePrompt(url, title) ==
    <<Lit("Please analyze this job posting information"), Lit("URL: "), url,
      Lit("PAGE TITLE: "), title, Lit("Return a JSON object"), Lit("with these fields")>>

\* C18: when the navigation fails, the failure ends nothing: the page title
\* stays the default and the job description None, no selector is queried and
\* no distillation call made, the run goes on to close the browser and to the
\* later steps (it is never aborted by the navigation), job-info extraction
\* makes at most one call, whose prompt holds the job URL and the default
\* title and no page content, and the final job data has description None.
C18_NavigationFailureRecovered ==
    page = LoadFailure =>
        /\ page_title = DefaultTitle /\ job_description = PyNone
        /\ queried = <<>> /\ ~InList("distill", log)
        /\ pc \in {"close", "jobinfo", "coverletter", "save", "done", "aborted"}
        /\ pc = "aborted" => ret.t \in {"job_info", "cover_letter"}
        /\ pc \in {"coverletter", "save", "done"} => Occurrences(log, <<"job_info">>) = 1
        /\ Occurrences(log, <<"job_info">>) <= 1
        /\ (ret.t = "job_info" /\ sent # NoRequest) =>
              Occurrences(PromptOf(sent), UrlTitlePrompt(args.url, DefaultTitle)) = 1
        /\ job_data # PyNone =>
              /\ job_data.f[<<"description">>] = PyNone
              /\ job_data.f[<<"page_title">>] = DefaultTitle
              /\ job_data.f[<<"application_url">>] = args.url

C18_Witness ==
    /\ page = LoadFailure /\ pc = "done" /\ browser = "closed"
    /\ log = <<"resume", "job_info", "cover_letter">>
    /\ DetailsFiles # {}

\* the fields of a JobInfo record (lines 626-637)
JobFields ==
    {<<"job_title">>, <<"company">>, <<"location">>, <<"employment_type">>,
     <<"experience_level">>, <<"department">>, <<"salary_range">>, <<"remote_options">>,
     <<"key_requirements">>, <<"key_responsibilities">>, <<"required_skills">>,
     <<"company_description">>}

\* C19 (as stated): every record an extractor returns holds every field of
\* its data model: the resume info every field of lines 587-599, the job info
\* every field of lines 626-637, whatever the LLM's payload left out.
C19_RecordsHaveAllFields ==
    /\ (ret.t = "resume" /\ ret.exc = "none") =>
          DOMAIN ResumeDefaults \subseteq DOMAIN resume_info.f
    /\ (ret.t = "job_info" /\ ret.exc = "none") =>
          JobFields \subseteq DOMAIN ret.payload.f

\* <PROVIDER>_MODEL of a provider
ConfiguredModel(provider) == getenv(env, VarName(provider, "_MODEL"))

\* the provider of a tier of the processor
TierProvider(p, tier) == IF tier = 1 THEN p.tier1_provider ELSE p.tier2_provider

\* C20 (as stated): a tier served by a local service exists only with a
\* model name configured, and the model it holds, and the model named in
\* every request sent to a local service, is exactly <PROVIDER>_MODEL, in the
\* processor and in the cover-letter generator alike.
C20_ConfiguredModelOnly ==
    /\ proc # NoObject =>
          \A tier \in {1, 2} :
              KindOf(proc.attrs, tier) = "LocalService" =>
                  /\ Truthy(ConfiguredModel(TierProvider(proc, tier)))
                  /\ GetAttr(proc.attrs, tier, "model")
                        = ConfiguredModel(TierProvider(proc, tier))
    /\ (gen # NoObject /\ KindOf(gen.attrs, 1) = "LocalService") =>
          /\ Truthy(ConfiguredModel(gen.tier1_provider))
          /\ GetAttr(gen.attrs, 1, "model") = ConfiguredModel(gen.tier1_provider)
    /\ (sent # NoRequest /\ sent.t = "POST") => sent.json.model = ConfiguredModel("ollama")

-----------------------------------------------------------------------------
(* Hosted providers *)

\* the tier just resolved is served by an API and no model is configured
ApiWithoutModel ==
    /\ Resolved /\ ret.err = NoError
    /\ KindOf(proc.attrs, ret.tier) = "ApiBased" /\ ~ModelPresent

\* the name "<provider>-default-model"
DefaultModelName(provider) == Str(<<provider, "-default-model">>)

\* what the generator's tier-1 resolver makes of the same environment
GeneratorResolved == InitTier1Config(env, genai, ret.provider, Tags(<<>>))

\* C21 (as stated): for a provider with an API key and no <PROVIDER>_MODEL,
\* the model of the resolved tier is "<provider>-default-model" and the
\* provider client, where one is built, is constructed with that same name,
\* in the processor's resolver and in the generator's tier-1 resolver alike.
C21_DefaultModelName ==
    ApiWithoutModel =>
        /\ GetAttr(proc.attrs, ret.tier, "model") = DefaultModelName(ret.provider)
        /\ HasAttr(proc.attrs, ret.tier, "client") =>
              GetAttr(proc.attrs, ret.tier, "client").model_name
                 = DefaultModelName(ret.provider)
        /\ GeneratorResolved.err = NoError
        /\ GetAttr(GeneratorResolved.attrs, 1, "model") = DefaultModelName(ret.provider)
        /\ HasAttr(GeneratorResolved.attrs, 1, "client") =>
              GetAttr(GeneratorResolved.attrs, 1, "client").model_name
                 = DefaultModelName(ret.provider)

\* the providers with an API key whose name does not hold 'gemini'
OtherApiProviders ==
    {p \in Providers : ~HasGemini(p) /\ Truthy(getenv(env, VarName(p, "_API_KEY")))}

\* the call just answered was made on a tier of such a provider
OtherApiCall ==
    /\ Returned /\ TierProvider(proc, ret.tier) \in OtherApiProviders
    /\ KindOf(proc.attrs, ret.tier) = "ApiBased"

\* C22: a provider with an API key whose name does not hold 'gemini' is
\* resolved without error on either tier, with no client built, and every
\* call on a tier it serves returns (None, False): no payload, no exception,
\* and no request sent.
C22_OtherApiFailsClearly ==
    /\ \A p \in OtherApiProviders, tier \in {1, 2} :
          /\ InitTierConfig(env, genai, NoAttrs, tier, p).err = NoError
          /\ ~HasAttr(InitTierConfig(env, genai, NoAttrs, tier, p).attrs, tier, "client")
    /\ OtherApiCall =>
          /\ ret.payload = PyNone /\ ~ret.ok /\ ret.exc = "none"
          /\ sent = NoRequest /\ calls = 0

C22_Witness ==
    /\ OtherApiCall /\ ret.tier = 2 /\ proc.tier2_provider = "openai"
    /\ proc.tier1_provider # "openai" /\ ~ret.ok

-----------------------------------------------------------------------------
(* Folder names: _create_intelligent_folder_name applied to job data whose *)
(* company and job title are any JSON value.  Texts are sequences of       *)
(* single characters here.                                                 *)

\* str(x) of a number
StrOf(x) == IF x.t = "num" THEN Str(x.v) ELSE [t |-> "str()", of |-> x]

\* lines 659-662 (and 664-667): a list gives its first element, another
\* non-string a string form, a falsy one the default
FirstOrString(x, default) ==
    IF x.t = "arr" THEN (IF Truthy(x) THEN x.v[1] ELSE default)
    ELSE IF x.t # "str" THEN (IF Truthy(x) THEN StrOf(x) ELSE default)
    ELSE x

\* the characters [^\w\s-] of the names explored
Punctuation == {",", ".", "&", "/"}

\* re.sub(r'[-\s]+', '_', s)
RECURSIVE Underscored(_)
Underscored(s) ==
    IF s = <<>> THEN <<>>
    ELSE IF Head(s) \in Whitespace \cup {"-"}
         THEN IF Len(s) > 1 /\ s[2] \in Whitespace \cup {"-"}
              THEN Underscored(Tail(s))
              ELSE <<"_">> \o Underscored(Tail(s))
         ELSE <<Head(s)>> \o Underscored(Tail(s))

\* lines 670-671 (and 674-675)
CleanName(s) == Underscored(Strip(SelectSeq(s, LAMBDA c : c \notin Punctuation)))

TitleMaxChars == 25

\* lines 670-683 for a company and a job title that are strings
FolderNameOf(company, job_title, stamp) ==
    CleanName(company.v) \o <<"_">>
      \o SubSeq(CleanName(job_title.v), 1, Min(Len(CleanName(job_title.v)), TitleMaxChars))
      \o <<"_", stamp>>

\* _create_intelligent_folder_name(job_data): re.sub raises TypeError on a
\* value that is no string
CreateIntelligentFolderNameAs(company, job_title, stamp) ==
    IF company.t = "str" /\ job_title.t = "str"
    THEN [t |-> "folder_name", exc |-> "none", company |-> company, job_title |-> job_title,
          val |-> Str(FolderNameOf(company, job_title, stamp))]
    ELSE [t |-> "folder_name", exc |-> "TypeError", company |-> company,
          job_title |-> job_title, val |-> PyNone]

CreateIntelligentFolderName(job, stamp) ==
    CreateIntelligentFolderNameAs(
        FirstOrString(DictGet(job, <<"company">>, Lit("Unknown_Company")).val,
                      Lit("Unknown_Company")),
        FirstOrString(DictGet(job, <<"job_title">>, Lit("Position")).val, Lit("Position")),
        stamp)

\* the values an LLM may give a name: strings, lists, scalars, null
Chars(w) ==
    CASE w = "Acme"  -> <<"A", "c", "m", "e">>
      [] w = "Inc"   -> <<"A", "c", "m", "e", ",", " ", "I", "n", "c", ".">>
      [] w = "R-D"   -> <<" ", "R", " ", "-", " ", "D", "\n">>
      [] w = "blank" -> <<" ">>
      [] w = "long"  -> [i \in 1..(TitleMaxChars + 2) |-> IF i = TitleMaxChars THEN " " ELSE "x"]
      [] OTHER       -> <<>>
NameStrings == {Str(Chars(w)) : w \in {"Acme", "Inc", "R-D", "blank", "long", ""}}
NameValues ==
    NameStrings
      \cup {Arr(<<>>), Arr(<<Str(Chars("Acme")), Str(Chars("Inc"))>>), Arr(<<Num(<<"1">>)>>),
            Arr(<<PyNone>>), Arr(<<Arr(<<Str(Chars("Acme"))>>)>>), Num(<<"7">>),
            Num(<<"0">>), PyNone, Obj(EmptyMap)}
Missing == [t |-> "missing"]
JobWith(company, job_title) ==
    Obj([k \in {<<"company">> : x \in {1} \ {IF company = Missing THEN 1 ELSE 0}}
              \cup {<<"job_title">> : x \in {1} \ {IF job_title = Missing THEN 1 ELSE 0}}
          |-> IF k = <<"company">> THEN company ELSE job_title])
Stamps == {"20250101_120000", "20251231_235959"}

InitNames ==
    /\ pc = "start"
    /\ genai = FALSE /\ env = NoEnv /\ Launched
    /\ proc = NoObject /\ sent = NoRequest /\ ret = NoReturn
    /\ calls = 0 /\ inits = 0 /\ log = <<>>
    /\ gen = NoObject /\ browser = "none" /\ page = NoPage /\ queried = <<>>
    /\ page_title = DefaultTitle
    /\ job_description = PyNone /\ resume_info = PyNone /\ files = <<>>
    /\ \E company \in NameValues \cup {Missing}, job_title \in NameValues \cup {Missing} :
          job_data = JobWith(company, job_title)

\* folder_name = processor._create_intelligent_folder_name(job_data)
CreateFolderName(stamp) ==
    /\ pc = "start"
    /\ ret' = CreateIntelligentFolderName(job_data, stamp)
    /\ pc' = "named"
    /\ UNCHANGED <<cfgVars, proc, inits, llmVars, runVars>>

NextNames == \E stamp \in Stamps : CreateFolderName(stamp)

SpecNames == InitNames /\ [][NextNames]_vars

\* what the name is to be built from: the first element of a non-empty
\* list, the string form of a non-string scalar, the default for an empty or
\* missing value, the string itself otherwise
PlainString(job, key, default) ==
    IF key \notin DOMAIN job.f \/ ~Truthy(job.f[key]) THEN default
    ELSE IF job.f[key].t = "arr" THEN job.f[key].v[1]
    ELSE IF job.f[key].t = "str" THEN job.f[key]
    ELSE StrOf(job.f[key])

\* C23 (as stated): whatever the company and the job title are (a string, a
\* list, empty or not, whose first element may be no string, a non-string
\* scalar, null, or missing), _create_intelligent_folder_name does not raise
\* and builds the name from plain strings: the first element of a non-empty
\* list, the string form of a non-string scalar, the default for an empty or
\* missing value.
C23_FolderNameFromPlainStrings ==
    ret.t = "folder_name" =>
        /\ ret.exc = "none"
        /\ ret.company.t = "str" /\ ret.job_title.t = "str"
        /\ ret.company = PlainString(job_data, <<"company">>, Lit("Unknown_Company"))
        /\ ret.job_title = PlainString(job_data, <<"job_title">>, Lit("Position"))

-----------------------------------------------------------------------------
(* The order of the pipeline's steps *)

\* the position of the run in the function body
StepOrder ==
    <<"start", "browser", "selectors", "fallback", "close", "jobinfo",
      "coverletter", "save", "done", "aborted">>
StepRank(at) == CHOOSE i \in DOMAIN StepOrder : StepOrder[i] = at

Logged == {log[i] : i \in DOMAIN log}

StepFailed(step) == ret.t = step /\ ret.exc # "none"

\* what each step needs of the steps before it
StepsBehind ==
    /\ browser # "none" => resume_info # PyNone
    /\ job_data # PyNone => (browser = "closed" /\ resume_info # PyNone)
    /\ pc \in {"save", "done"} => job_data # PyNone
    /\ files # <<>> => (pc = "done" /\ job_data # PyNone)
    /\ \A purpose \in Logged : Occurrences(log, <<purpose>>) = 1
    /\ \A i, j \in DOMAIN log : i < j => StepIndex(log[i]) < StepIndex(log[j])

\* C24: the steps of one run happen in the order resume, browser page,
\* content extraction, job information, cover letter, output, each at most
\* once and each after the one before it has finished; a failed resume
\* extraction leaves the browser unlaunched, and a failed job-information
\* extraction leaves the letter ungenerated and nothing written.
C24_StepsInOrder ==
    /\ [](/\ StepsBehind
          /\ StepFailed("resume") =>
                (pc = "aborted" /\ browser = "none" /\ page = NoPage)
          /\ StepFailed("job_info") =>
                (pc = "aborted" /\ files = <<>> /\ "cover_letter" \notin Logged))
    /\ [][StepRank(pc') > StepRank(pc)]_vars

C24_Witness ==
    /\ StepFailed("job_info") /\ browser = "closed" /\ pc = "aborted"
    /\ log = <<"resume", "job_info">>

-----------------------------------------------------------------------------
(* The shape of a successful payload *)

\* C25: whenever _call_llm returns ok = True its payload is a mapping, the
\* parsed object or {"content": text}; an answer that is valid JSON but no
\* object (an array, a string, a number, null) is never handed to the caller
\* as a successful payload that is not a mapping.
C25_SuccessPayloadIsMapping ==
    (Returned /\ ret.ok) => ret.payload.t = "obj"

-----------------------------------------------------------------------------
(* The files of save_cover_letter_to_file *)

IsPrefix(s, t) == Len(s) <= Len(t) /\ SubSeq(t, 1, Len(s)) = s

\* the call of save_cover_letter_to_file, from its arguments to its return
Saving == pc = "save" /\ ret'.t = "save"

\* the writes of the call, in order
NewFiles == SubSeq(files', Len(files) + 1, Len(files'))

LetterKept == NewFiles # <<>> /\ NewFiles[1] = LetterFile(ret.cover_letter)

\* C26: inside save_cover_letter_to_file a file once written is never removed
\* or written again; when PDF generation fails after the text file was
\* written, the text file holds the full letter, the job-details file is still
\* written and the folder name is returned; when a later write raises, the
\* function returns None and the files written before it remain.
C26_WrittenFilesKept ==
    [][/\ IsPrefix(files, files')
       /\ Saving =>
            /\ \A i, j \in DOMAIN NewFiles :
                  NewFiles[i].name = NewFiles[j].name => i = j
            /\ (ret'.outcome.txt /\ ~ret'.outcome.pdf /\ NewFiles # <<>>) =>
                  /\ LetterKept
                  /\ \A i \in DOMAIN NewFiles : NewFiles[i].name # "coverletter.pdf"
                  /\ (ret'.outcome.details /\ ListsOk(job_data)) =>
                        /\ Len(NewFiles) = 2
                        /\ NewFiles[2] = DetailsFile(job_data)
                        /\ ret'.folder_name # PyNone
            /\ (ret'.outcome.txt /\ ~ret'.outcome.details /\ NewFiles # <<>>) =>
                  /\ ret'.folder_name = PyNone
                  /\ LetterKept
                  /\ ret'.outcome.pdf => NewFiles = <<LetterFile(ret.cover_letter),
                                                       PdfFile(ret.cover_letter)>>
            /\ ret'.folder_name = PyNone =>
                  \A i \in DOMAIN NewFiles : NewFiles[i].name # "JobDetails.txt"]_vars

C26_Witness ==
    /\ ret.t = "save" /\ ret.outcome.txt /\ ~ret.outcome.pdf /\ ret.outcome.details
    /\ Len(files) = 2 /\ files[1].name = "coverletter.txt"
    /\ files[2].name = "JobDetails.txt" /\ ret.folder_name # PyNone

-----------------------------------------------------------------------------
(* The whitespace of a post-processed letter *)

\* whether s holds n copies of the token c in a row
HasRun(s, c, n) ==
    \E i \in 1..(Len(s) - n + 1) : \A j \in i..(i + n - 1) : s[j] = c

Tidy(s) ==
    /\ ~HasRun(s, "\n", 3)
    /\ ~HasRun(s, " ", 2)
    /\ s # <<>> => (s[1] \notin Whitespace /\ s[Len(s)] \notin Whitespace)

\* C27: whatever the letter and the candidate, the letter that
\* _post_process_cover_letter returns holds no run of three or more newlines
\* and no run of two or more spaces, and neither starts nor ends with
\* whitespace; the clean-up runs after the signature is appended, so the
\* signature is covered by it.
C27_OutputIsTidy ==
    ret.t = "post_process" =>
        /\ Tidy(ret.cover_letter.v)
        /\ Occurrences(ret.cover_letter.v, CollapseSpaces(ret.candidate_info.name.v)) >= 1

C27_Witness ==
    /\ ret.t = "post_process" /\ ret.passes = 1
    /\ ret.candidate_info.name = WideName
    /\ HasRun(ret.response.v, "\n", 3)
    /\ Occurrences(ret.cover_letter.v, <<"Jane", " ", "Doe">>) = 1

-----------------------------------------------------------------------------
(* The local chat endpoint *)

\* the request of the local path was sent and the transport raised nothing
LocalAnswered ==
    Returned /\ sent # NoRequest /\ sent.t = "POST" /\ ret.backend.exc = "none"

Is2xx(status) == status \in 200..299

\* the messages of the request: the system prompt, when there is one, then the
\* prompt
ChatMessages ==
    (IF Truthy(ret.system_prompt)
     THEN <<[role |-> "system", content |-> <<ret.system_prompt>>]>> ELSE <<>>)
      \o <<[role |-> "user", content |-> ret.prompt]>>

\* the answer of the local path for the content of a response body: the parsed
\* JSON, or the raw text wrapped as {"content": text} when the text is no JSON
ParsedOrWrapped ==
    /\ ret.ok
    /\ ret.payload = IF JsonLoads(ret.backend.text).ok
                     THEN JsonLoads(ret.backend.text).val
                     ELSE Obj(<<"content">> :> ret.backend.text)

TextAnswer == ret.backend.shape = "content" /\ ret.backend.text.t = "str"

-----------------------------------------------------------------------------
(* The browser of a run *)

AfterBrowser == pc \in {"jobinfo", "coverletter", "save", "done"}

\* what the page gave is what the browser was asked for before it was closed
BrowserUntouched ==
    /\ browser' = browser /\ page' = page
    /\ page_title' = page_title /\ queried' = queried

\* C29: once launched, the browser is closed exactly once on every path
\* through content extraction (a selector hit, the LLM fallback succeeding or
\* failing, an exception of the body-text query, a page that does not load),
\* it is closed before the job-information extraction begins, and nothing is
\* asked of the browser after the close.
C29_BrowserClosedOnce ==
    /\ [](AfterBrowser => browser = "closed")
    /\ []((pc = "aborted" /\ browser # "none") => browser = "closed")
    /\ [][/\ browser = "closed" => BrowserUntouched
          /\ (browser # "closed" /\ browser' = "closed") =>
                (browser = "open" /\ pc = "close" /\ ret'.t = "close")
          /\ (pc = "browser" /\ page' = LoadFailure) => pc' = "close"
          /\ pc = "selectors" => pc' = "fallback"
          /\ pc = "fallback" => pc' = "close"
          /\ pc = "close" => (browser' = "closed" /\ pc' = "jobinfo")]_vars

C29_Witness ==
    /\ pc = "jobinfo" /\ browser = "closed" /\ ret.t = "close"
    /\ page # LoadFailure /\ page.body = QueryRaises /\ ~Truthy(job_description)

-----------------------------------------------------------------------------
(* The final job-data record *)

\* the keys the run sets itself
RunKeys == {<<"application_url">>, <<"page_title">>, <<"description">>}

\* the title the browser read, or the default when the page did not load
TitleRead == IF page = LoadFailure THEN DefaultTitle ELSE page.title

\* C30: in the final job-data record application_url, page_title and
\* description are the URL of the run, the title the browser read (or the
\* default title) and the result of the content extractor (possibly None),
\* also when the job information of the LLM holds keys of these names; every
\* other field of the LLM's job information is carried over unchanged.
C30_RunFieldsWin ==
    job_data # PyNone =>
        /\ job_data.f[<<"application_url">>] = args.url
        /\ job_data.f[<<"page_title">>] = TitleRead
        /\ job_data.f[<<"description">>] = job_description
        /\ ret.t = "job_info" =>
              /\ DOMAIN job_data.f = DOMAIN ret.payload.f \cup RunKeys
              /\ \A k \in DOMAIN ret.payload.f \ RunKeys :
                    job_data.f[k] = ret.payload.f[k]

C30_Witness ==
    /\ job_data # PyNone /\ ret.t = "job_info"
    /\ <<"description">> \in DOMAIN ret.payload.f
    /\ ret.payload.f[<<"description">>] # job_description
    /\ job_data.f[<<"description">>] = job_description
    /\ job_data.f[<<"job_title">>] = ret.payload.f[<<"job_title">>]

====
